---- MODULE Spec2Model ----
(***************************************************************************)
(* Decision pipeline of the FM24 matchday playbook                         *)
(* (src/domain/rules_engine.py and its helpers).  A caller owns a Context  *)
(* object and calls recommend(context); recommend reads the rule, catalog  *)
(* and config files, mutates the Context it was given, and returns a       *)
(* Recommendation, None, or raises.                                        *)
(*                                                                         *)
(* Numbers that are floats in the source are kept as scaled integers:      *)
(* tone weights in hundredths (normalised weights in thousandths, as the   *)
(* source rounds them to 3 decimals), the matchup edge in 1/200ths, xG in  *)
(* tenths, probabilities in hundredths.                                    *)
(***************************************************************************)
EXTENDS Integers, Sequences, FiniteSets, TLC

VARIABLES
    context,      \* the caller's Context object (recommend mutates it)
    ctx_in,       \* value of the Context when the latest call was made
    prev_ctx_in,  \* value of the Context when the call before it was made
    files,        \* contents of data/rules/normalized/*.json and the model store
    out,          \* what the latest call returned: [kind, rec]
    pre_ml,       \* `final` of the latest call just before the ML bridge ran
    prev_out,     \* what the call before the latest returned
    feature_log,  \* rows appended to the ML feature log (append-only CSV)
    calls,        \* number of recommend calls made so far
    active_file,  \* data/sessions/active.json: <<>> when absent, else <<session>>
    archive_file, \* data/sessions/sessions.jsonl: one session per line
    session_call, \* the latest SessionManager call: operation, arguments, outcome
    evaluation,   \* a recommend call in flight: position, locals, file versions read
    managers      \* per SessionManager instance: an append_event call in flight

vars == <<context, ctx_in, prev_ctx_in, files, out, pre_ml, prev_out, feature_log, calls,
          active_file, archive_file, session_call, evaluation, managers>>

\* Python's None (Shout.NONE is the enum member whose value is "None")
NULL == "null"

--------------------------------------------------------------------------
\* Enumerations of src/domain/models.py

PRE_MATCH == "PreMatch"
EARLY == "Early"
MID == "Mid"
HALF_TIME == "HalfTime"
LATE == "Late"
VERY_LATE == "VeryLate"
FULL_TIME == "FullTime"

MatchStage == {PRE_MATCH, EARLY, MID, HALF_TIME, LATE, VERY_LATE, FULL_TIME}

TALK_STAGES == {PRE_MATCH, HALF_TIME, FULL_TIME}

FAVOURITE == "Favourite"
UNDERDOG == "Underdog"
FavStatus == {FAVOURITE, UNDERDOG}

HOME == "Home"
AWAY == "Away"
Venue == {HOME, AWAY}

WINNING == "Winning"
DRAWING == "Drawing"
LOSING == "Losing"
ScoreState == {WINNING, DRAWING, LOSING}

PROMOTION == "Promotion"
FINAL == "Final"
DERBY == "Derby"
CUP == "Cup"

SHOUT_NONE == "None"
Shout == {"Encourage", "Demand More", "Focus", "Fire Up", "Praise", SHOUT_NONE}

NERVOUS == "Nervous"
COMPLACENT == "Complacent"
LACKING_BELIEF == "LackingBelief"

TEAM == "Team"

STRONG_FAVOURITE == "StrongFavourite"
SLIGHT_FAVOURITE == "SlightFavourite"
EVEN == "Even"
SLIGHT_UNDERDOG == "SlightUnderdog"
STRONG_UNDERDOG == "StrongUnderdog"

\* A Mentality member is identified by its value in MENTALITY_TO_VALUE
\* (Defensive -2 .. Very Attacking +3); VALUE_TO_MENTALITY is its inverse.
DEFENSIVE == -2
CAUTIOUS == -1
BALANCED == 0
POSITIVE == 1
ATTACKING == 2
VERY_ATTACKING == 3

Mentality == {DEFENSIVE, CAUTIOUS, BALANCED, POSITIVE, ATTACKING, VERY_ATTACKING}

Max(a, b) == IF a >= b THEN a ELSE b
Min(a, b) == IF a <= b THEN a ELSE b

clamp_mentality_lower_only(value) == Max(value, -2)

clamp_mentality(value) == Max(Min(value, 3), -2)

--------------------------------------------------------------------------
\* Small helpers standing for Python built-ins

\* An Optional[int] / Optional[float] is <<>> for None and <<v>> for the value v
NoneNum == <<>>
Some(v) == <<v>>

\* Python's `x or 0` on an Optional number
OrZero(x) == IF x = NoneNum THEN 0 ELSE x[1]

\* str.join
RECURSIVE Join(_, _)
Join(sep, parts) ==
    IF parts = <<>> THEN ""
    ELSE IF Len(parts) = 1 THEN parts[1]
    ELSE parts[1] \o sep \o Join(sep, Tail(parts))


RECURSIVE SumSeq(_)
SumSeq(s) == IF s = <<>> THEN 0 ELSE Head(s) + SumSeq(Tail(s))

First5(s) == IF Len(s) <= 5 THEN s ELSE SubSeq(s, 1, 5)

\* sorted(items, key=second, reverse=True) on <<name, key>> pairs: Python's
\* sort is stable, so pairs of equal key keep their order
RECURSIVE insert_desc(_, _)
insert_desc(sorted, kv) ==
    IF sorted = <<>> THEN <<kv>>
    ELSE IF Head(sorted)[2] >= kv[2] THEN <<Head(sorted)>> \o insert_desc(Tail(sorted), kv)
    ELSE <<kv>> \o sorted

RECURSIVE sort_desc(_, _)
sort_desc(items, acc) ==
    IF items = <<>> THEN acc ELSE sort_desc(Tail(items), insert_desc(acc, Head(items)))

\* round-half-up integer division, for the source's round(x, 3) on positives
RoundDiv(n, d) == (2 * n + d) \div (2 * d)

--------------------------------------------------------------------------
\* engine_config.json as the code reads it: every tunable falls back to the
\* default written in the .get(...) call when the key is absent.

DEFAULT_FAV_CFG ==
    [ pos_gap_threshold |-> 3, pos_weight |-> 1, form_diff_threshold |-> 2,
      form_weight |-> 1, home_bonus |-> 1, away_penalty |-> 0,
      favourite_threshold |-> 2,
      require_both_away |-> FALSE,
      never_fav_away_if_pos_gap_disadv_ge |-> 0 ]

\* advantage_model defaults in 1/200ths of an edge point:
\* pos 1.0/4 per place, form 0.8/5 per point, venue +-0.6, xG 0.8 per goal
\* (0.08 per tenth), shots 0.4/5 per shot, possession 0.3/20 per percent,
\* cap 5.0, tiers 2.5 / 0.8 / 0.8 / -0.8 / -0.8 / -2.5
DEFAULT_ADV_CFG ==
    [ w_pos |-> 50, w_form |-> 32, w_home |-> 120, w_away |-> -120,
      w_xg |-> 16, w_shots |-> 16, w_poss |-> 3, cap |-> 1000,
      thr_strong_fav |-> 500, thr_slight_fav |-> 160, thr_even_hi |-> 160,
      thr_even_lo |-> -160, thr_slight_dog |-> -160, thr_strong_dog |-> -500 ]

--------------------------------------------------------------------------
\* Favourite detection and matchup tier

form_value(ch) == IF ch = "W" THEN 1 ELSE IF ch = "L" THEN -1 ELSE 0

_score_form(form) ==
    IF form = <<>> THEN 0
    ELSE SumSeq([i \in 1..Len(First5(form)) |-> form_value(form[i])])

_form_points(s) ==
    IF s = <<>> THEN 0
    ELSE SumSeq([i \in 1..Len(First5(s)) |->
                    IF s[i] = "W" THEN 3 ELSE IF s[i] = "D" THEN 1 ELSE 0])

HasPositions(c) == c.team_position # NoneNum /\ c.opponent_position # NoneNum

PosDelta(c) == c.opponent_position[1] - c.team_position[1]

\* detect_fav_status returns (fav, explanation)
detect_fav_status(c, cfg) ==
    LET posTerm ==
            IF HasPositions(c)
            THEN IF PosDelta(c) >= cfg.pos_gap_threshold THEN cfg.pos_weight
                 ELSE IF PosDelta(c) <= -cfg.pos_gap_threshold THEN -cfg.pos_weight
                 ELSE 0
            ELSE 0
        posPart ==
            IF HasPositions(c)
            THEN IF PosDelta(c) >= cfg.pos_gap_threshold
                 THEN "pos +" \o ToString(cfg.pos_weight)
                 ELSE IF PosDelta(c) <= -cfg.pos_gap_threshold
                 THEN "pos -" \o ToString(cfg.pos_weight)
                 ELSE "pos 0"
            ELSE "pos ?"
        form_delta == _score_form(c.team_form) - _score_form(c.opponent_form)
        formTerm ==
            IF form_delta >= cfg.form_diff_threshold THEN cfg.form_weight
            ELSE IF form_delta <= -cfg.form_diff_threshold THEN -cfg.form_weight
            ELSE 0
        formPart ==
            IF form_delta >= cfg.form_diff_threshold
            THEN "form +" \o ToString(cfg.form_weight)
            ELSE IF form_delta <= -cfg.form_diff_threshold
            THEN "form -" \o ToString(cfg.form_weight)
            ELSE "form 0"
        venueTerm == IF c.venue = HOME THEN cfg.home_bonus ELSE -cfg.away_penalty
        venuePart ==
            IF c.venue = HOME THEN "home +" \o ToString(cfg.home_bonus)
            ELSE "away -" \o ToString(cfg.away_penalty)
        score == posTerm + formTerm + venueTerm
        has_pos_adv == HasPositions(c) /\ PosDelta(c) >= cfg.pos_gap_threshold
        has_form_adv == form_delta >= cfg.form_diff_threshold
        fav == IF score >= cfg.favourite_threshold THEN FAVOURITE ELSE UNDERDOG
    IN  IF /\ c.venue = AWAY /\ HasPositions(c)
           /\ cfg.never_fav_away_if_pos_gap_disadv_ge # 0
           /\ -PosDelta(c) >= cfg.never_fav_away_if_pos_gap_disadv_ge
        THEN <<UNDERDOG, UNDERDOG \o " (forced: away and "
                 \o ToString(IF PosDelta(c) < 0 THEN -PosDelta(c) ELSE PosDelta(c))
                 \o " places worse)">>
        ELSE IF /\ c.venue = AWAY /\ HasPositions(c)
                /\ cfg.require_both_away
                /\ ~(has_pos_adv /\ has_form_adv)
        THEN <<UNDERDOG, UNDERDOG \o " (away: need both pos and form advantages; got pos="
                 \o (IF has_pos_adv THEN "Y" ELSE "N") \o ", form="
                 \o (IF has_form_adv THEN "Y" ELSE "N") \o ")">>
        ELSE <<fav, fav \o " (score " \o ToString(score) \o ": "
                 \o Join(", ", <<posPart, formPart, venuePart>>) \o ")">>

matchup_edge_ignore_venue(c, m) ==
    LET posT == IF HasPositions(c) THEN m.w_pos * PosDelta(c) ELSE 0
        formT == m.w_form * (_form_points(c.team_form) - _form_points(c.opponent_form))
        venueT == 0
        xgT == IF c.xg_for # NoneNum /\ c.xg_against # NoneNum
               THEN m.w_xg * (c.xg_for[1] - c.xg_against[1]) ELSE 0
        shotsT == IF c.shots_for # NoneNum /\ c.shots_against # NoneNum
                  THEN m.w_shots * (c.shots_for[1] - c.shots_against[1]) ELSE 0
        possT == IF c.possession_pct # NoneNum
                 THEN m.w_poss * (c.possession_pct[1] - 50) ELSE 0
        score == posT + formT + venueT + xgT + shotsT + possT
    IN  Max(-m.cap, Min(m.cap, score))

\* the continuous edge of detect_matchup_tier, already clamped to +-cap
matchup_edge(c, m) ==
    LET posT == IF HasPositions(c) THEN m.w_pos * PosDelta(c) ELSE 0
        formT == m.w_form * (_form_points(c.team_form) - _form_points(c.opponent_form))
        venueT == IF c.venue = HOME THEN m.w_home ELSE m.w_away
        xgT == IF c.xg_for # NoneNum /\ c.xg_against # NoneNum
               THEN m.w_xg * (c.xg_for[1] - c.xg_against[1]) ELSE 0
        shotsT == IF c.shots_for # NoneNum /\ c.shots_against # NoneNum
                  THEN m.w_shots * (c.shots_for[1] - c.shots_against[1]) ELSE 0
        possT == IF c.possession_pct # NoneNum
                 THEN m.w_poss * (c.possession_pct[1] - 50) ELSE 0
        score == posT + formT + venueT + xgT + shotsT + possT
    IN  Max(-m.cap, Min(m.cap, score))

\* the mapping with the last branch falling to the band below
tier_of_score_no_fallback(score, m) ==
    IF score >= m.thr_strong_fav THEN STRONG_FAVOURITE
    ELSE IF score >= m.thr_slight_fav THEN SLIGHT_FAVOURITE
    ELSE IF m.thr_even_lo < score /\ score < m.thr_even_hi THEN EVEN
    ELSE IF score <= m.thr_strong_dog THEN STRONG_UNDERDOG
    ELSE SLIGHT_UNDERDOG

tier_of_score(score, m) ==
    IF score >= m.thr_strong_fav THEN STRONG_FAVOURITE
    ELSE IF score >= m.thr_slight_fav THEN SLIGHT_FAVOURITE
    ELSE IF m.thr_even_lo < score /\ score < m.thr_even_hi THEN EVEN
    ELSE IF score <= m.thr_strong_dog THEN STRONG_UNDERDOG
    ELSE IF score <= m.thr_slight_dog THEN SLIGHT_UNDERDOG
    ELSE EVEN

\* detect_matchup_tier returns (tier, score); the explanation string only
\* feeds the trace
detect_matchup_tier(c, m) ==
    <<tier_of_score(matchup_edge(c, m), m), matchup_edge(c, m)>>

--------------------------------------------------------------------------
\* Base rule matcher

\* Recommendation(...) as pick_base_rule constructs it; the remaining fields
\* take the dataclass defaults
BaseRecommendation(r) ==
    [ mentality |-> r.mentality, team_talk |-> r.teamTalk, gesture |-> r.gesture,
      shout |-> r.shout, talk_audience |-> r.audience, notes |-> r.notes,
      confidence |-> 0, risk |-> "neutral", alternatives |-> <<>>,
      nudges |-> <<>>, unit_notes |-> <<>> ]

rule_matches_stage_only(c, w, m) == w.stage = c.stage

rule_matches_fav_strict(c, w, m) ==
    /\ w.stage = c.stage
    /\ (w.tier # {} => detect_matchup_tier(c, m)[1] \in w.tier)
    /\ (w.favStatus # NULL => w.favStatus = c.fav_status)
    /\ (w.venue # NULL => w.venue = c.venue)
    /\ (w.scoreState # NULL => c.score_state # NULL /\ w.scoreState = c.score_state)
    /\ (w.special # {} => w.special \cap c.special_situations # {})

\* a rule survives elimination (none of the `continue`s fires)
rule_matches(c, w, m) ==
    /\ w.stage = c.stage
    /\ (w.tier # {} => detect_matchup_tier(c, m)[1] \in w.tier)
    /\ (w.favStatus # NULL /\ ~c.auto_fav_status => w.favStatus = c.fav_status)
    /\ (w.venue # NULL => w.venue = c.venue)
    /\ (w.scoreState # NULL => c.score_state # NULL /\ w.scoreState = c.score_state)
    /\ (w.special # {} => w.special \cap c.special_situations # {})

\* specificity of a surviving rule
rule_score(c, w) ==
    1 + (IF w.tier # {} THEN 1 ELSE 0)
      + (IF w.favStatus # NULL /\ w.favStatus = c.fav_status THEN 1 ELSE 0)
      + (IF w.venue # NULL THEN 1 ELSE 0)
      + (IF w.scoreState # NULL THEN 1 ELSE 0)
      + (IF w.special # {} THEN 1 ELSE 0)

\* indices of the candidates, in rule-list order
Candidates(c, rules, m) == {i \in 1..Len(rules) : rule_matches(c, rules[i].when, m)}

\* the candidates list as the loop builds it: <<rule index, score>> pairs in
\* rule-list order
RECURSIVE candidates_from(_, _, _, _)
candidates_from(c, rules, m, i) ==
    IF i > Len(rules) THEN <<>>
    ELSE (IF rule_matches(c, rules[i].when, m)
          THEN << <<i, rule_score(c, rules[i].when)>> >> ELSE <<>>)
         \o candidates_from(c, rules, m, i + 1)

TopCandidate_first_match(c, rules, m) == candidates_from(c, rules, m, 1)[1][1]

\* candidates.sort(key=score, reverse=True); top = candidates[0][1]
TopCandidate(c, rules, m) == sort_desc(candidates_from(c, rules, m, 1), <<>>)[1][1]

HasBase(c, rules, m) == Candidates(c, rules, m) # {}

\* pick_base_rule; only called in the model when HasBase (None otherwise)
pick_base_rule(c, rules, m) ==
    BaseRecommendation(rules[TopCandidate(c, rules, m)].recommendation)

--------------------------------------------------------------------------
\* Adjustment stages, in the order recommend calls them

override_key(c) ==
    IF c.stage = PRE_MATCH
    THEN IF c.fav_status = UNDERDOG THEN "preMatchUnderdog" ELSE "preMatch"
    ELSE IF c.stage = HALF_TIME
    THEN IF c.score_state = WINNING THEN "halfTimeLead"
         ELSE IF c.score_state = LOSING THEN "halfTimeLosing" ELSE NULL
    ELSE IF c.stage = FULL_TIME
    THEN IF c.score_state = WINNING THEN "fullTimeWin"
         ELSE IF c.score_state = DRAWING THEN "fullTimeDraw"
         ELSE IF c.score_state = LOSING THEN "fullTimeLoss" ELSE NULL
    ELSE NULL

\* one SpecialOverride merged into the working recommendation
merge_override(rec, ov) ==
    [rec EXCEPT !.team_talk = IF ov.teamTalk # "" THEN ov.teamTalk ELSE @,
                !.gesture = IF ov.gesture # "" THEN ov.gesture ELSE @,
                !.shout = IF ov.shout # NULL THEN ov.shout ELSE @,
                !.mentality = IF ov.mentality # NoneNum THEN ov.mentality[1] ELSE @]

RECURSIVE apply_special_overrides(_, _, _)
apply_special_overrides(c, rec, specials) ==
    IF specials = <<>> THEN rec
    ELSE LET sp == Head(specials)
             key == override_key(c)
         IN  IF /\ sp.tag \in c.special_situations
                /\ key # NULL
                /\ key \in DOMAIN sp.overrides
             THEN apply_special_overrides(c, merge_override(rec, sp.overrides[key]),
                                          Tail(specials))
             ELSE apply_special_overrides(c, rec, Tail(specials))

\* recommend, lines 1251-1252
force_talk_stage_shout(c, rec) ==
    IF c.stage \in TALK_STAGES THEN [rec EXCEPT !.shout = SHOUT_NONE] ELSE rec

context_stats_total(c) ==
    (IF HasPositions(c)
     THEN IF PosDelta(c) >= 8 THEN 1 ELSE IF PosDelta(c) <= -8 THEN -1 ELSE 0
     ELSE 0)
    + (LET form_diff == _score_form(c.team_form) - _score_form(c.opponent_form)
       IN IF form_diff >= 2 THEN 1 ELSE IF form_diff <= -2 THEN -1 ELSE 0)
    + (IF c.venue = HOME THEN 1 ELSE 0)

apply_context_stats_adjustments(c, rec) ==
    LET total == context_stats_total(c)
        delta == IF total >= 2 THEN 1 ELSE IF total <= -2 THEN -1 ELSE 0
    IN  IF delta = 0 THEN rec
        ELSE [rec EXCEPT
                !.mentality = clamp_mentality(@ + delta),
                !.shout = IF @ = SHOUT_NONE /\ c.stage \notin TALK_STAGES
                          THEN (IF delta > 0 THEN "Demand More" ELSE "Encourage")
                          ELSE @,
                !.notes = Append(@,
                    IF delta > 0
                    THEN "Favorable position/form and home advantage suggest a more assertive approach."
                    ELSE "Position/form context suggests caution (especially away).")]

\* recommend, lines 1254-1255
add_auto_status_note(rec, fav_explanation) ==
    IF fav_explanation # ""
    THEN [rec EXCEPT !.notes = Append(@, "Auto status: " \o fav_explanation)]
    ELSE rec

SetShout(rec, shout, note) == [rec EXCEPT !.shout = shout, !.notes = Append(@, note)]

\* the selection without the matchup-tier nuance for a drawing favourite
choose_inplay_shout_no_tier(c, rec, m) ==
    IF c.stage \in TALK_STAGES THEN rec
    ELSE IF rec.shout # SHOUT_NONE THEN rec
    ELSE IF c.score_state = WINNING
    THEN IF c.fav_status = UNDERDOG
         THEN SetShout(rec, "Praise", "Underdog winning: Praise to reinforce confidence.")
         ELSE IF c.stage \in {LATE, VERY_LATE}
         THEN SetShout(rec, "Focus", "Protect the lead late: Focus.")
         ELSE rec
    ELSE IF c.score_state = DRAWING
    THEN IF c.fav_status = FAVOURITE
         THEN SetShout(rec, "Demand More", "Favourite drawing: Demand More to push on.")
         ELSE SetShout(rec, "Encourage", "Underdog drawing: Encourage to keep belief.")
    ELSE IF c.score_state = LOSING
    THEN IF c.fav_status = FAVOURITE
         THEN IF c.stage \in {EARLY, MID}
              THEN SetShout(rec, "Fire Up", "Favourite losing early: Fire Up for reaction.")
              ELSE SetShout(rec, "Demand More", "Favourite losing late: Demand More to chase.")
         ELSE SetShout(rec, "Encourage", "Underdog losing: Encourage to avoid collapse.")
    ELSE rec

choose_inplay_shout(c, rec, m) ==
    IF c.stage \in TALK_STAGES THEN rec
    ELSE IF rec.shout # SHOUT_NONE THEN rec
    ELSE IF c.score_state = WINNING
    THEN IF c.fav_status = UNDERDOG
         THEN SetShout(rec, "Praise", "Underdog winning: Praise to reinforce confidence.")
         ELSE IF c.stage \in {LATE, VERY_LATE}
         THEN SetShout(rec, "Focus", "Protect the lead late: Focus.")
         ELSE rec
    ELSE IF c.score_state = DRAWING
    THEN IF c.fav_status = FAVOURITE
         THEN IF c.stage = VERY_LATE /\ detect_matchup_tier(c, m)[1] = STRONG_FAVOURITE
              THEN SetShout(rec, "Focus",
                     "Strong favourite drawing very late: Focus to stay composed for the moment.")
              ELSE SetShout(rec, "Demand More", "Favourite drawing: Demand More to push on.")
         ELSE SetShout(rec, "Encourage", "Underdog drawing: Encourage to keep belief.")
    ELSE IF c.score_state = LOSING
    THEN IF c.fav_status = FAVOURITE
         THEN IF c.stage \in {EARLY, MID}
              THEN SetShout(rec, "Fire Up", "Favourite losing early: Fire Up for reaction.")
              ELSE SetShout(rec, "Demand More", "Favourite losing late: Demand More to chase.")
         ELSE SetShout(rec, "Encourage", "Underdog losing: Encourage to avoid collapse.")
    ELSE rec

HasGoals(c) == c.team_goals # NoneNum /\ c.opponent_goals # NoneNum

\* _goal_diff; only read where HasGoals
_goal_diff(c) == c.team_goals[1] - c.opponent_goals[1]

apply_time_score_heuristics(c, rec) ==
    IF c.stage \notin {LATE, VERY_LATE} THEN rec
    ELSE LET delta ==
                 IF c.score_state = LOSING
                 THEN IF c.fav_status = FAVOURITE THEN 1
                      ELSE IF HasGoals(c) /\ _goal_diff(c) = -1 THEN 1 ELSE 0
                 ELSE IF c.score_state = DRAWING
                 THEN IF c.fav_status = FAVOURITE THEN 1 ELSE 0
                 ELSE IF c.score_state = WINNING
                 THEN IF HasGoals(c) /\ _goal_diff(c) = 1 THEN -1 ELSE 0
                 ELSE 0
         IN  IF delta = 0 THEN rec
             ELSE [rec EXCEPT
                     !.mentality = clamp_mentality(@ + delta),
                     !.notes = Append(@,
                         IF delta > 0
                         THEN "Late-game push based on scoreline and status."
                         ELSE "Late-game control: tighten up with a narrow lead.")]

has_stats(c) ==
    \/ c.possession_pct # NoneNum
    \/ c.shots_for # NoneNum \/ c.shots_against # NoneNum
    \/ c.shots_on_target_for # NoneNum \/ c.shots_on_target_against # NoneNum
    \/ c.xg_for # NoneNum \/ c.xg_against # NoneNum

apply_live_stats_heuristics(c, rec) ==
    IF ~has_stats(c) THEN rec
    ELSE
    LET sf == OrZero(c.shots_for)
        sa == OrZero(c.shots_against)
        sof == OrZero(c.shots_on_target_for)
        soa == OrZero(c.shots_on_target_against)
        xg_for == OrZero(c.xg_for)
        xg_against == OrZero(c.xg_against)
        notLeading == c.score_state \in {DRAWING, LOSING}
        r1 == IF (sf > sa + 3 \/ sof > soa + 1) /\ notLeading
              THEN [rec EXCEPT
                      !.notes = Append(@, "We're creating more - keep belief and maintain intensity."),
                      !.shout = IF @ = SHOUT_NONE /\ c.stage \notin TALK_STAGES
                                THEN "Encourage" ELSE @]
              ELSE rec
        r2 == IF /\ c.score_state = WINNING
                 /\ (sa > sf + 4 \/ soa > sof + 2)
                 /\ c.stage \in {LATE, VERY_LATE}
              THEN [r1 EXCEPT
                      !.notes = Append(@, "They're peppering us - tighten up and concentrate."),
                      !.shout = IF @ = SHOUT_NONE THEN "Focus" ELSE @]
              ELSE r1
        r3 == IF /\ c.possession_pct # NoneNum /\ c.possession_pct[1] < 40
                 /\ c.fav_status = FAVOURITE /\ notLeading
              THEN [r2 EXCEPT !.notes = Append(@,
                      "Possession low for a favourite - consider calming it down and keeping it simple.")]
              ELSE r2
        \* xG is kept in tenths: 0.6 is 6
        r4 == IF (xg_for - xg_against) > 6 /\ notLeading
              THEN [r3 EXCEPT !.notes = Append(@,
                      "xG says we're on top - keep pushing, the goal should come.")]
              ELSE r3
    IN  r4

\* dedupe notes while preserving order
RECURSIVE dedupe(_, _)
dedupe(notes, deduped) ==
    IF notes = <<>> THEN deduped
    ELSE IF \E i \in 1..Len(deduped) : deduped[i] = Head(notes)
    THEN dedupe(Tail(notes), deduped)
    ELSE dedupe(Tail(notes), Append(deduped, Head(notes)))

\* the loop of apply_reaction_adjustments: result and running mentality_value
RECURSIVE reaction_loop(_, _, _, _)
reaction_loop(c, result, mentality_value, reactions) ==
    IF reactions = <<>> THEN <<result, mentality_value>>
    ELSE LET r == Head(reactions)
             adj == r.adjustment
         IN  IF r.reaction \in c.player_reactions
             THEN reaction_loop(c,
                    [result EXCEPT
                       !.team_talk = IF adj.teamTalk # "" THEN adj.teamTalk ELSE @,
                       !.gesture = IF adj.gesture # "" THEN adj.gesture ELSE @,
                       !.shout = IF adj.shout # NULL THEN adj.shout ELSE @,
                       !.notes = @ \o adj.notes],
                    mentality_value + adj.mentalityDelta,
                    Tail(reactions))
             ELSE reaction_loop(c, result, mentality_value, Tail(reactions))

apply_reaction_adjustments_keep_shout(c, rec, reactions) ==
    LET looped == reaction_loop(c, rec, rec.mentality, reactions)
    IN  [looped[1] EXCEPT !.mentality = clamp_mentality(looped[2]),
                          !.shout = rec.shout,
                          !.notes = dedupe(looped[1].notes, <<>>)]

apply_reaction_adjustments(c, rec, reactions) ==
    LET looped == reaction_loop(c, rec, rec.mentality, reactions)
    IN  [looped[1] EXCEPT !.mentality = clamp_mentality(looped[2]),
                          !.notes = dedupe(looped[1].notes, <<>>)]

--------------------------------------------------------------------------
\* Catalog lookups (catalogs.json, statements.json)

OUTSTRETCHED_ARMS == "Outstretched Arms"
HANDS_TOGETHER == "Hands Together"
POINT_FINGER == "Point Finger"
HANDS_ON_HIPS == "Hands on Hips"
THRASH_ARMS == "Thrash Arms"
PUMP_FISTS == "Pump Fists"
HANDS_IN_POCKETS == "Hands in Pockets"

\* catalogs.json "gestures": an ordered mapping tone -> gestures
GESTURES_BY_TONE ==
    << <<"calm", <<HANDS_TOGETHER, OUTSTRETCHED_ARMS>> >>,
       <<"assertive", <<POINT_FINGER, HANDS_ON_HIPS>> >>,
       <<"motivational", <<PUMP_FISTS>> >>,
       <<"relaxed", <<HANDS_IN_POCKETS>> >>,
       <<"aggressive", <<THRASH_ARMS>> >> >>

Gestures == {HANDS_TOGETHER, OUTSTRETCHED_ARMS, POINT_FINGER, HANDS_ON_HIPS,
             PUMP_FISTS, HANDS_IN_POCKETS, THRASH_ARMS}

InSeq(x, seq) == \E i \in 1..Len(seq) : seq[i] = x

\* first tone whose gesture list holds the gesture; "calm" for unknown gestures
_gesture_tone(gesture) ==
    IF \E i \in 1..Len(GESTURES_BY_TONE) : InSeq(gesture, GESTURES_BY_TONE[i][2])
    THEN GESTURES_BY_TONE[CHOOSE i \in 1..Len(GESTURES_BY_TONE) :
             /\ InSeq(gesture, GESTURES_BY_TONE[i][2])
             /\ \A j \in 1..(i - 1) : ~InSeq(gesture, GESTURES_BY_TONE[j][2])][1]
    ELSE "calm"

\* catalogs.get("gestures", {}).get(tone, [])
tone_gestures(tone) ==
    IF \E i \in 1..Len(GESTURES_BY_TONE) : GESTURES_BY_TONE[i][1] = tone
    THEN GESTURES_BY_TONE[CHOOSE i \in 1..Len(GESTURES_BY_TONE) :
             GESTURES_BY_TONE[i][1] = tone][2]
    ELSE <<>>

stage_key(stage) ==
    IF stage = HALF_TIME THEN "HalfTime"
    ELSE IF stage = FULL_TIME THEN "FullTime" ELSE "PreMatch"

score_key(score_state) == IF score_state = NULL THEN DRAWING ELSE score_state

\* statements.json holds, under each stage (and score) key, a list of
\* phrases per gesture; stmt_count[g] is the length of gesture g's lists and
\* a phrase is named by its place in the file
_get_gesture_statements(stage, score_state, gesture, stmt_count) ==
    IF gesture \notin DOMAIN stmt_count THEN <<>>
    ELSE [i \in 1..stmt_count[gesture] |->
            IF stage = PRE_MATCH
            THEN "PreMatch/" \o gesture \o "/" \o ToString(i - 1)
            ELSE stage_key(stage) \o "/" \o score_key(score_state) \o "/"
                   \o gesture \o "/" \o ToString(i - 1)]

RECURSIVE collect_statements(_, _, _, _)
collect_statements(stage, score_state, gestures, stmt_count) ==
    IF gestures = <<>> THEN <<>>
    ELSE _get_gesture_statements(stage, score_state, Head(gestures), stmt_count)
           \o collect_statements(stage, score_state, Tail(gestures), stmt_count)

_get_tone_statements(stage, score_state, tone, stmt_count) ==
    collect_statements(stage, score_state, tone_gestures(tone), stmt_count)

\* overlay_key is not used by the source's lookup
_get_stats_overlay_phrase(tone, stmt_count) ==
    LET statements == _get_tone_statements(HALF_TIME, DRAWING, tone, stmt_count)
        calm_statements == _get_tone_statements(HALF_TIME, DRAWING, "calm", stmt_count)
    IN  IF statements # <<>> THEN statements[1]
        ELSE IF calm_statements # <<>> THEN calm_statements[1] ELSE NULL

\* what _select_talk_phrase gives when it reads the local `items` that no
\* path has assigned (lines 271 and 273): UnboundLocalError
RAISES == "<UnboundLocalError>"

\* the tone-based fallback of _select_talk_phrase (lines 237-273), entered
\* with a non-empty statement list
select_by_tone(c, tone, statements) ==
    IF /\ c.stage = PRE_MATCH /\ tone = "assertive"
       /\ c.fav_status = FAVOURITE /\ c.venue = HOME /\ Len(statements) >= 2
    THEN statements[2]
    ELSE IF /\ c.stage = PRE_MATCH /\ tone = "assertive"
            /\ c.fav_status = FAVOURITE /\ c.venue = AWAY /\ Len(statements) >= 3
    THEN statements[3]
    ELSE IF c.score_state = WINNING /\ c.fav_status = FAVOURITE /\ tone = "assertive"
    THEN statements[1]
    ELSE IF /\ c.score_state = LOSING /\ c.venue = AWAY
            /\ tone \in {"calm", "motivational"}
    THEN IF tone = "calm" /\ Len(statements) >= 2 THEN statements[2] ELSE statements[1]
    ELSE IF /\ c.stage = HALF_TIME /\ c.score_state = LOSING /\ tone = "assertive"
            /\ (\/ c.fav_status = FAVOURITE
                \/ (c.ht_score_delta # NoneNum /\ c.ht_score_delta[1] <= -2))
    THEN statements[1]
    ELSE RAISES

\* a phrase, NULL for None, or RAISES
_select_talk_phrase(c, tone, gesture, stmt_count) ==
    LET own == _get_gesture_statements(c.stage, c.score_state, gesture, stmt_count)
        byTone == _get_tone_statements(c.stage, c.score_state, tone, stmt_count)
    IN  IF gesture # "" /\ own # <<>>
        THEN IF /\ c.stage = HALF_TIME /\ c.score_state = LOSING
                /\ gesture = OUTSTRETCHED_ARMS /\ c.venue = AWAY /\ Len(own) >= 2
             THEN (IF c.fav_status = FAVOURITE THEN own[1] ELSE own[2])
             ELSE own[1]
        ELSE IF byTone = <<>> THEN NULL
        ELSE select_by_tone(c, tone, byTone)

\* harmonize_talk_with_gesture: [kind |-> "ok", rec] or [kind |-> "raised"]
harmonize_talk_with_gesture(c, rec, stmt_count) ==
    IF c.stage \notin TALK_STAGES THEN [kind |-> "ok", rec |-> rec]
    ELSE IF rec.team_talk # "" THEN [kind |-> "ok", rec |-> rec]
    ELSE LET phrase == _select_talk_phrase(c, _gesture_tone(rec.gesture), rec.gesture,
                                           stmt_count)
         IN  IF phrase = RAISES THEN [kind |-> "raised", rec |-> rec]
             ELSE IF phrase # NULL
             THEN [kind |-> "ok", rec |-> [rec EXCEPT !.team_talk = phrase]]
             ELSE [kind |-> "ok", rec |-> rec]

--------------------------------------------------------------------------
\* Gesture decision matrix and talk-stage adjustments

_is_praise_context(c) ==
    \/ c.score_state = WINNING
    \/ /\ c.stage = FULL_TIME /\ c.venue = AWAY /\ c.fav_status = UNDERDOG
       /\ c.score_state \in {DRAWING, WINNING}
    \/ PROMOTION \in c.special_situations /\ c.stage = FULL_TIME

matrix_gesture(c, g) ==
    IF c.stage = PRE_MATCH
    THEN (IF c.fav_status = FAVOURITE THEN POINT_FINGER ELSE OUTSTRETCHED_ARMS)
    ELSE IF c.stage = HALF_TIME
    THEN IF c.score_state = LOSING
         THEN IF c.fav_status = FAVOURITE
              THEN IF c.ht_score_delta # NoneNum /\ c.ht_score_delta[1] <= -2
                   THEN THRASH_ARMS ELSE POINT_FINGER
              ELSE HANDS_TOGETHER
         ELSE IF c.score_state = DRAWING
         THEN (IF c.fav_status = FAVOURITE THEN POINT_FINGER ELSE HANDS_TOGETHER)
         ELSE IF c.score_state = WINNING
         THEN (IF COMPLACENT \in c.player_reactions THEN POINT_FINGER ELSE HANDS_TOGETHER)
         ELSE g
    ELSE IF c.stage = FULL_TIME
    THEN IF c.score_state = WINNING THEN HANDS_TOGETHER
         ELSE IF c.score_state = DRAWING
         THEN (IF c.fav_status = FAVOURITE THEN HANDS_ON_HIPS ELSE OUTSTRETCHED_ARMS)
         ELSE IF c.score_state = LOSING
         THEN (IF c.fav_status = FAVOURITE THEN THRASH_ARMS ELSE HANDS_TOGETHER)
         ELSE g
    ELSE g

adjust_gesture_for_context(c, rec) ==
    IF c.stage \notin TALK_STAGES THEN rec
    ELSE LET g == matrix_gesture(c, rec.gesture)
         IN  [rec EXCEPT !.gesture =
                 IF g = OUTSTRETCHED_ARMS /\ ~_is_praise_context(c)
                 THEN HANDS_TOGETHER ELSE g]

\* the edge threshold 0.2 is 40 in 1/200ths
apply_tier_informed_talk_adjustments(c, rec, m) ==
    IF c.stage \notin TALK_STAGES THEN rec
    ELSE IF c.stage = HALF_TIME /\ c.score_state = DRAWING
    THEN LET tier == detect_matchup_tier(c, m)[1]
             edge == detect_matchup_tier(c, m)[2]
             r1 == IF tier = SLIGHT_FAVOURITE /\ rec.gesture = POINT_FINGER
                   THEN [rec EXCEPT !.gesture = HANDS_ON_HIPS] ELSE rec
         IN  IF tier \in {EVEN, SLIGHT_UNDERDOG} /\ edge > 40
             THEN [r1 EXCEPT !.gesture = HANDS_TOGETHER,
                             !.notes = Append(@, "Even but on top: keep belief and push on.")]
             ELSE r1
    ELSE rec

adapt_talk_phrase_with_stats(c, rec, stmt_count, m) ==
    IF c.stage \notin TALK_STAGES THEN rec
    ELSE IF c.stage = FULL_TIME /\ PROMOTION \in c.special_situations THEN rec
    ELSE IF ~has_stats(c) THEN rec
    ELSE
    LET tone == _gesture_tone(rec.gesture)
        sf == OrZero(c.shots_for)
        sa == OrZero(c.shots_against)
        sof == OrZero(c.shots_on_target_for)
        soa == OrZero(c.shots_on_target_against)
        xg_delta == OrZero(c.xg_for) - OrZero(c.xg_against)
        notLeading == c.score_state \in {DRAWING, LOSING}
        overlay_key ==
            IF notLeading /\ (sf > sa + 3 \/ sof > soa + 1 \/ xg_delta > 6)
            THEN "push_on"
            ELSE IF /\ c.score_state = WINNING /\ c.stage \in {LATE, VERY_LATE}
                    /\ (sa > sf + 4 \/ soa > sof + 2)
            THEN "see_it_out"
            ELSE IF /\ c.possession_pct # NoneNum /\ c.possession_pct[1] < 40
                    /\ c.fav_status = FAVOURITE /\ notLeading
            THEN "take_control"
            ELSE NULL
        tone_to_use ==
            IF /\ overlay_key = "push_on"
               /\ detect_matchup_tier(c, m)[1] \in {EVEN, SLIGHT_UNDERDOG}
               /\ detect_matchup_tier(c, m)[2] > 40
            THEN "calm" ELSE tone
        new_phrase == _get_stats_overlay_phrase(tone_to_use, stmt_count)
    IN  IF overlay_key = NULL THEN rec
        ELSE IF new_phrase = NULL THEN rec
        ELSE [rec EXCEPT !.team_talk = new_phrase]

enforce_prematch_mentality_cap_attacking_only(c, rec) ==
    IF c.stage # PRE_MATCH THEN rec
    ELSE IF rec.mentality = ATTACKING
    THEN [rec EXCEPT !.mentality = POSITIVE,
                     !.notes = Append(@, "Pre-match cap: start no higher than Positive.")]
    ELSE rec

enforce_prematch_mentality_cap(c, rec) ==
    IF c.stage # PRE_MATCH THEN rec
    ELSE IF rec.mentality \in {ATTACKING, VERY_ATTACKING}
    THEN [rec EXCEPT !.mentality = POSITIVE,
                     !.notes = Append(@, "Pre-match cap: start no higher than Positive.")]
    ELSE rec

\* recommend, lines 1277-1278
apply_preferred_audience(c, rec) ==
    IF c.stage \in TALK_STAGES /\ c.preferred_talk_audience # NULL
    THEN [rec EXCEPT !.talk_audience = c.preferred_talk_audience]
    ELSE rec

--------------------------------------------------------------------------
\* Tone weighting engine (src/domain/tone_matrix.py); weights in hundredths

\* _get_supported_tones: the keys of catalogs.json "gestures", in file order
SupportedTones == [i \in 1..Len(GESTURES_BY_TONE) |-> GESTURES_BY_TONE[i][1]]

ToneSet == {SupportedTones[i] : i \in 1..Len(SupportedTones)}

\* w[tone] += d for each tone named in the record d
Bump(w, d) == [t \in DOMAIN w |-> IF t \in DOMAIN d THEN w[t] + d[t] ELSE w[t]]

BumpIf(cond, w, d) == IF cond THEN Bump(w, d) ELSE w

_base_weights(c) ==
    LET w0 == [t \in ToneSet |-> 100]
        w1 == IF c.venue = AWAY
              THEN Bump(w0, [calm |-> 30, motivational |-> 20, assertive |-> -15,
                             aggressive |-> -25, relaxed |-> 10])
              ELSE IF c.venue = HOME
              THEN Bump(w0, [assertive |-> 20, motivational |-> 20])
              ELSE w0
        w2 == IF c.fav_status = FAVOURITE
              THEN Bump(w1, [assertive |-> 20, motivational |-> 10])
              ELSE Bump(w1, [calm |-> 20, motivational |-> 20])
        w3 == BumpIf(DERBY \in c.special_situations, w2,
                     [motivational |-> 20, aggressive |-> -20])
        w4 == BumpIf(FINAL \in c.special_situations, w3,
                     [calm |-> 20, relaxed |-> 10, assertive |-> -10, aggressive |-> -20])
        w5 == BumpIf(CUP \in c.special_situations, w4, [motivational |-> 15])
    IN  w5

\* the score delta the dynamic signals look at: the half-time delta at talk
\* stages, the live goal difference in play
tone_delta(c) ==
    IF c.stage \in TALK_STAGES THEN c.ht_score_delta
    ELSE IF HasGoals(c) THEN Some(_goal_diff(c)) ELSE NoneNum

_apply_dynamic_signals_ignore_red(c, w) ==
    LET delta == tone_delta(c)
        w1 == IF c.morale_trend # NoneNum /\ c.morale_trend[1] <= -1
              THEN Bump(w, [motivational |-> 30, calm |-> 20, assertive |-> -10])
              ELSE IF c.morale_trend # NoneNum /\ c.morale_trend[1] >= 1
              THEN Bump(w, [assertive |-> 15, motivational |-> 15])
              ELSE w
        w2 == IF delta # NoneNum /\ delta[1] < 0
              THEN BumpIf(c.stage = HALF_TIME /\ c.venue = AWAY /\ c.fav_status = FAVOURITE,
                          Bump(w1, [motivational |-> 20, calm |-> 10, assertive |-> 5]),
                          [motivational |-> -10, calm |-> 20, assertive |-> 5])
              ELSE IF delta # NoneNum /\ delta[1] > 0
              THEN Bump(w1, [calm |-> 20, relaxed |-> 10])
              ELSE w1
        w3 == IF c.xthreat_delta # NoneNum /\ c.xthreat_delta[1] >= 25
              THEN Bump(w2, [assertive |-> 20, motivational |-> 20])
              ELSE IF c.xthreat_delta # NoneNum /\ c.xthreat_delta[1] <= -25
              THEN Bump(w2, [calm |-> 20, motivational |-> 20])
              ELSE w2
        w4 == w3
        w5 == BumpIf(c.cards_yellow >= 3, w4,
                     [calm |-> 10, assertive |-> -5, aggressive |-> -10])
        w6 == BumpIf(c.injuries >= 2, w5, [motivational |-> 20, calm |-> 10])
    IN  w6

\* xthreat_delta is kept in hundredths: 0.25 is 25
_apply_dynamic_signals(c, w) ==
    LET delta == tone_delta(c)
        w1 == IF c.morale_trend # NoneNum /\ c.morale_trend[1] <= -1
              THEN Bump(w, [motivational |-> 30, calm |-> 20, assertive |-> -10])
              ELSE IF c.morale_trend # NoneNum /\ c.morale_trend[1] >= 1
              THEN Bump(w, [assertive |-> 15, motivational |-> 15])
              ELSE w
        w2 == IF delta # NoneNum /\ delta[1] < 0
              THEN BumpIf(c.stage = HALF_TIME /\ c.venue = AWAY /\ c.fav_status = FAVOURITE,
                          Bump(w1, [motivational |-> 20, calm |-> 10, assertive |-> 5]),
                          [motivational |-> -10, calm |-> 20, assertive |-> 5])
              ELSE IF delta # NoneNum /\ delta[1] > 0
              THEN Bump(w1, [calm |-> 20, relaxed |-> 10])
              ELSE w1
        w3 == IF c.xthreat_delta # NoneNum /\ c.xthreat_delta[1] >= 25
              THEN Bump(w2, [assertive |-> 20, motivational |-> 20])
              ELSE IF c.xthreat_delta # NoneNum /\ c.xthreat_delta[1] <= -25
              THEN Bump(w2, [calm |-> 20, motivational |-> 20])
              ELSE w2
        w4 == BumpIf(c.cards_red > 0, w3,
                     [calm |-> 30, motivational |-> 20, aggressive |-> -30])
        w5 == BumpIf(c.cards_yellow >= 3, w4,
                     [calm |-> 10, assertive |-> -5, aggressive |-> -10])
        w6 == BumpIf(c.injuries >= 2, w5, [motivational |-> 20, calm |-> 10])
    IN  w6

AppendNew(seq, x) == IF InSeq(x, seq) THEN seq ELSE Append(seq, x)

AppendNewIf(cond, seq, x) == IF cond THEN AppendNew(seq, x) ELSE seq

_disallow(c) ==
    LET d1 == AppendNewIf(c.stage = PRE_MATCH, <<>>, "aggressive")
        d2 == AppendNewIf(/\ c.stage = FULL_TIME /\ c.fav_status = UNDERDOG
                          /\ c.venue = AWAY
                          /\ OrZero(c.team_goals) >= OrZero(c.opponent_goals),
                          d1, "aggressive")
        d3 == AppendNewIf(c.cards_red > 0, d2, "aggressive")
        d4 == AppendNewIf(c.stage = HALF_TIME /\ c.venue = AWAY /\ c.fav_status = UNDERDOG,
                          d3, "aggressive")
        d5 == AppendNewIf(/\ c.stage = HALF_TIME /\ c.venue = AWAY
                          /\ c.fav_status = FAVOURITE
                          /\ c.ht_score_delta # NoneNum /\ c.ht_score_delta[1] < 0,
                          d4, "motivational")
        d6 == AppendNewIf(c.stage = HALF_TIME /\ c.fav_status = UNDERDOG, d5, "aggressive")
        d7 == AppendNewIf(FINAL \in c.special_situations, d6, "aggressive")
    IN  d7

RECURSIVE SumOver(_, _)
SumOver(f, S) ==
    IF S = {} THEN 0
    ELSE LET x == CHOOSE y \in S : TRUE IN f[x] + SumOver(f, S \ {x})

\* floor each weight at 0.01, divide by the sum, round to 3 decimals: the
\* result is in thousandths
_normalize(weights) ==
    LET clamped == [k \in DOMAIN weights |-> Max(weights[k], 1)]
        total == SumOver(clamped, DOMAIN clamped)
    IN  [k \in DOMAIN weights |-> RoundDiv(1000 * clamped[k], total)]

\* select_tones returns (weights, disallow)
select_tones(c) == <<_normalize(_apply_dynamic_signals(c, _base_weights(c))), _disallow(c)>>

--------------------------------------------------------------------------
\* Gesture/tone synergy (src/domain/synergy.py); scores in thousandths

score_synergy(target_tone, gesture, c) ==
    LET g_tone == _gesture_tone(gesture)
        score ==
            500
            + (IF g_tone = target_tone THEN 300 ELSE 0)
            - (IF \/ (g_tone = "calm" /\ target_tone \in {"assertive", "angry"})
                  \/ (target_tone = "calm" /\ g_tone \in {"assertive", "angry"})
               THEN 200 ELSE 0)
            + (IF c.fav_status = FAVOURITE /\ target_tone \in {"assertive", "motivational"}
               THEN 50 ELSE 0)
            + (IF c.fav_status = UNDERDOG /\ target_tone \in {"calm", "encourage"}
               THEN 50 ELSE 0)
            - (IF c.stage = PRE_MATCH /\ target_tone = "angry" THEN 200 ELSE 0)
    IN  Max(0, Min(1000, score))

suggest_gestures(target_tone) ==
    IF target_tone \in ToneSet THEN tone_gestures(target_tone) ELSE <<HANDS_TOGETHER>>

--------------------------------------------------------------------------
\* Confidence, risk and alternatives (recommend, lines 1280-1330)

\* max(tone_weights.items(), key=weight): the first tone of highest weight
top_tone(weights) ==
    SupportedTones[CHOOSE i \in 1..Len(SupportedTones) :
        /\ \A j \in 1..Len(SupportedTones) : weights[SupportedTones[i]] >= weights[SupportedTones[j]]
        /\ \A j \in 1..(i - 1) : weights[SupportedTones[j]] < weights[SupportedTones[i]]]

RECURSIVE FilterSeq(_, _)
FilterSeq(seq, drop) ==
    IF seq = <<>> THEN <<>>
    ELSE IF Head(seq) \in drop THEN FilterSeq(Tail(seq), drop)
    ELSE <<Head(seq)>> \o FilterSeq(Tail(seq), drop)

SeqToSet(seq) == {seq[i] : i \in 1..Len(seq)}

\* [{"tone": t, "gestures": suggest_gestures(t)} for t in tones if t not in disallow]
\* with Outstretched Arms filtered out of the gestures outside a praise context
tone_entries(c, tones, disallow) ==
    LET kept == FilterSeq(tones, SeqToSet(disallow))
    IN  [i \in 1..Len(kept) |->
            [tone |-> kept[i],
             gestures |-> IF _is_praise_context(c) THEN suggest_gestures(kept[i])
                          ELSE FilterSeq(suggest_gestures(kept[i]), {OUTSTRETCHED_ARMS})]]

SORTED_TONES == <<"aggressive", "assertive", "calm", "motivational", "relaxed">>

\* the "Tone mix: ..." note lists tone:weight in key order
tone_mix_note(weights) ==
    "Tone mix: " \o Join(", ", [i \in 1..Len(SORTED_TONES) |->
        SORTED_TONES[i] \o ":" \o ToString(weights[SORTED_TONES[i]])])

\* risk without the confidence threshold
risk_of_any_confidence(top, confidence) ==
    IF top \in {"assertive", "angry"} THEN "bold"
    ELSE IF top \in {"calm", "encourage", "relaxed"} THEN "safe"
    ELSE "neutral"

risk_of(top, confidence) ==
    IF top \in {"assertive", "angry"} /\ confidence >= 450 THEN "bold"
    ELSE IF top \in {"calm", "encourage", "relaxed"} THEN "safe"
    ELSE "neutral"

\* lines 1286-1288: confidence = min(1, 0.6 * weight of the top tone + 0.4 * synergy)
tone_confidence(c, rec, tone_weights, top) ==
    Min(1000, RoundDiv(6 * tone_weights[top] + 4 * score_synergy(top, rec.gesture, c), 10))

\* lines 1311-1314: an alternative is appended only when it has tones left
alternative_entry(type, tones) ==
    IF tones # <<>> THEN <<[type |-> type, tones |-> tones]>> ELSE <<>>

\* lines 1295-1314: the safer and the bolder alternative
tone_alternatives(c, disallow) ==
    alternative_entry("safer", tone_entries(c,
        IF c.stage = HALF_TIME /\ c.score_state = LOSING /\ c.fav_status = FAVOURITE
        THEN <<"calm">> ELSE <<"calm", "encourage">>, disallow))
    \o alternative_entry("bolder", tone_entries(c, <<"assertive", "angry">>, disallow))

\* lines 1316-1328: tone mix, disallow list and the away-favourite note
tone_notes(c, tone_weights, disallow) ==
    <<tone_mix_note(tone_weights)>>
    \o (IF disallow # <<>> THEN <<"Disallow: " \o Join(", ", disallow)>> ELSE <<>>)
    \o (IF /\ c.stage = HALF_TIME /\ c.venue = AWAY /\ c.fav_status = FAVOURITE
            /\ c.ht_score_delta # NoneNum /\ c.ht_score_delta[1] < 0
            /\ InSeq("encourage", disallow)
         THEN <<"Away favourite trailing at HT: avoid praise/encourage - go calm/supportive or firm.">>
         ELSE <<>>)

apply_tone_metadata_with(c, rec, tone_weights, disallow, top) ==
    [rec EXCEPT !.confidence = tone_confidence(c, rec, tone_weights, top),
                !.risk = risk_of(top, tone_confidence(c, rec, tone_weights, top)),
                !.alternatives = @ \o tone_alternatives(c, disallow),
                !.notes = @ \o tone_notes(c, tone_weights, disallow)]

\* lines 1280-1330 of recommend
apply_tone_metadata(c, rec) ==
    apply_tone_metadata_with(c, rec, select_tones(c)[1], select_tones(c)[2],
                             top_tone(select_tones(c)[1]))

--------------------------------------------------------------------------
\* Unit segmentation (src/domain/segmentation.py); ratings in tenths

tag_for(val) ==
    IF val = NoneNum THEN NULL
    ELSE IF val[1] >= 72 THEN "praise"
    ELSE IF val[1] < 65 THEN "encourage"
    ELSE NULL

\* unit_notes as the (unit, note) items of the dict, in insertion order
analyze_units(c) ==
    LET d == c.unit_ratings["Defence"]
        a == c.unit_ratings["Attack"]
        diverge == d # NoneNum /\ a # NoneNum /\ d[1] < 65 /\ a[1] > 70
        first == IF diverge
                 THEN << <<"Defence", "sympathise (stay solid, reset focus)">>,
                         <<"Attack", "praise (keep being brave)">> >>
                 ELSE <<>>
        generic(u) == IF tag_for(c.unit_ratings[u]) # NULL
                         /\ ~(diverge /\ u \in {"Defence", "Attack"})
                      THEN << <<u, tag_for(c.unit_ratings[u])>> >>
                      ELSE <<>>
    IN  first \o generic("Defence") \o generic("Midfield") \o generic("Attack")

--------------------------------------------------------------------------
\* Micro-nudges (src/domain/nudges.py)

\* the four _get_individual_statement calls generate_nudges can make
NUDGE_CALLS == {"Faith", "Challenge", "Encourage", "Striker"}

\* random.choice(statements) if statements else "[<category> statement needed]";
\* pick is the index random.choice draws
_get_individual_statement(category, count, pick) ==
    IF count > 0 THEN "IndividualTalk/" \o category \o "/" \o ToString(pick - 1)
    ELSE "[" \o category \o " statement needed]"

striker_nudge(c) ==
    /\ c.stage \in {PRE_MATCH, HALF_TIME}
    /\ (c.score_state \in {DRAWING, LOSING} \/ c.score_state = NULL)

\* which of the calls are made for this Context
nudge_calls_made(c) ==
    {k \in NUDGE_CALLS :
        \/ k = "Faith" /\ NERVOUS \in c.player_reactions
        \/ k = "Challenge" /\ COMPLACENT \in c.player_reactions
        \/ k = "Encourage" /\ LACKING_BELIEF \in c.player_reactions
        \/ k = "Striker" /\ striker_nudge(c)}

OptSeq(cond, seq) == IF cond THEN seq ELSE <<>>

generate_nudges(c, count, pk) ==
    OptSeq(NERVOUS \in c.player_reactions,
        << "One looks nervous - speak to them individually with faith: Outstretched Arms - '"
             \o _get_individual_statement("Faith", count, pk["Faith"]) \o "'",
           "Consider Hands Together to reduce pressure on that player." >>)
    \o OptSeq(COMPLACENT \in c.player_reactions,
        << "If someone is complacent, go assertive to reset standards (Point Finger: '"
             \o _get_individual_statement("Challenge", count, pk["Challenge"]) \o "')." >>)
    \o OptSeq(LACKING_BELIEF \in c.player_reactions,
        << "Low belief detected - supportive message to individuals can help ('"
             \o _get_individual_statement("Encourage", count, pk["Encourage"]) \o "')." >>)
    \o OptSeq(c.cards_yellow >= 3, <<"Warn booked defenders about tackles.">>)
    \o OptSeq(c.cards_red > 0,
               <<"Reinforce shape after the red card; encourage composure.">>)
    \o OptSeq(c.injuries >= 1,
               <<"Check stamina on key runners; plan early sub if fading.">>)
    \o OptSeq(c.xthreat_delta # NoneNum /\ c.xthreat_delta[1] >= 25,
               <<"Praise high performers; keep pressing triggers.">>)
    \o OptSeq(c.xthreat_delta # NoneNum /\ c.xthreat_delta[1] < 25
                  /\ c.xthreat_delta[1] <= -25,
               <<"Encourage low-confidence attackers; simplify instructions.">>)
    \o OptSeq(c.morale_trend # NoneNum /\ c.morale_trend[1] <= -1,
               <<"Use supportive tone with youngsters and fringe players.">>)
    \o OptSeq(striker_nudge(c),
        << "Individual ST (composed): Pump Fists - '"
             \o _get_individual_statement("Encourage", count, pk["Striker"]) \o "'" >>)

\* recommend, lines 1332-1336
apply_units_and_nudges(c, rec, count, pk) ==
    [rec EXCEPT !.unit_notes = analyze_units(c),
                !.nudges = generate_nudges(c, count, pk)]

SHOW_ME == "Show me something else in the second half."

\* recommend, lines 1338-1347: the two literal note injections and the
\* default talk audience
apply_extra_notes(c, rec) ==
    LET hit == \/ /\ c.stage = HALF_TIME /\ c.score_state = LOSING
                  /\ rec.gesture \in {POINT_FINGER, HANDS_ON_HIPS}
               \/ rec.team_talk = SHOW_ME
        n1 == IF hit /\ NERVOUS \in c.player_reactions
              THEN Append(rec.notes, "Nervous player: consider a quick individual faith talk (OA: 'I've got faith in you.') to settle them.")
              ELSE rec.notes
        n2 == IF hit
              THEN Append(n1, "For your composed striker: Pump Fists - 'You can make the difference.'")
              ELSE n1
    IN  [rec EXCEPT !.notes = n2,
                    !.talk_audience = IF c.stage \in TALK_STAGES /\ @ = NULL THEN TEAM ELSE @]

--------------------------------------------------------------------------
\* ML-assist bridge (_maybe_log_ml_features, _maybe_apply_ml_inference and
\* src/domain/ml_assist.py).  files.ml describes engine_config.json's
\* ml_assist section and the model store:
\*   cfg_ok            engine_config.json parses (json.loads does not raise)
\*   inference_enabled, weight_high (weight >= 0.5), disabled_stages
\*   gesture, shout    [status, probs]: status "ok" (model loads and predicts
\*                     probs), "missing" (no file: load_model gives None),
\*                     "load_fails" (joblib.load raises: load_model gives
\*                     None), "predict_fails" (predict_proba gives None),
\*                     "load_raises" (fp.exists() raises, outside
\*                     load_model's try)
\*   log_features, log_fails (the append to the CSV raises)
\* Probabilities are in hundredths.

\* load_model + predict_proba: the probability items, <<>> for None
model_probs(m) == IF m.status = "ok" THEN m.probs ELSE <<>>

\* lines 1475-1482: the top class, or the next class that is not
\* Outstretched Arms when the top one is and the context is no praise context
best_gesture_of(c, sorted_g) ==
    IF ~_is_praise_context(c) /\ sorted_g[1][1] = OUTSTRETCHED_ARMS
       /\ \E i \in 2..Len(sorted_g) : sorted_g[i][1] # OUTSTRETCHED_ARMS
    THEN sorted_g[CHOOSE i \in 2..Len(sorted_g) :
            /\ sorted_g[i][1] # OUTSTRETCHED_ARMS
            /\ \A j \in 2..(i - 1) : sorted_g[j][1] = OUTSTRETCHED_ARMS]
    ELSE sorted_g[1]

\* lines 1484-1494: best = (class, p) is suggested when p >= 0.4 and it
\* differs from the gesture; applied when the weight is high, else listed
ml_gesture_apply(rec, ml, best) ==
    IF ~(best[2] >= 40 /\ best[1] # "" /\ best[1] # rec.gesture)
    THEN [out |-> rec, meta_g |-> <<>>]
    ELSE IF ml.weight_high
    THEN [out |-> [rec EXCEPT !.gesture = best[1]],
          meta_g |-> <<best[1], ToString(best[2]), "True">>]
    ELSE [out |-> [rec EXCEPT !.alternatives =
                      Append(@, [type |-> "ml-suggested", gesture |-> best[1],
                                 p |-> ToString(best[2])])],
          meta_g |-> <<best[1], ToString(best[2]), "False">>]

\* the gesture part of the inference: the working copy `out`, the
\* alternatives list it shares with `rec`, and the gesture entries of ml_meta
ml_gesture_step(c, rec, ml) ==
    IF model_probs(ml.gesture) = <<>> THEN [out |-> rec, meta_g |-> <<>>]
    ELSE ml_gesture_apply(rec, ml,
            best_gesture_of(c, sort_desc(model_probs(ml.gesture), <<>>)))

\* lines 1500-1507: the top shout is applied at p >= 0.45 over a shout of none
ml_shout_apply(work, best) ==
    IF best[2] >= 45 /\ work.shout = SHOUT_NONE
    THEN [out |-> IF best[1] \in Shout THEN [work EXCEPT !.shout = best[1]] ELSE work,
          meta_s |-> <<best[1], ToString(best[2]), "True">>]
    ELSE [out |-> work, meta_s |-> <<best[1], ToString(best[2]), "False">>]

\* the shout part (in-play stages only), on the working copy
ml_shout_step(c, work, ml) ==
    IF c.stage \in TALK_STAGES \/ model_probs(ml.shout) = <<>>
    THEN [out |-> work, meta_s |-> <<>>]
    ELSE ml_shout_apply(work, sort_desc(model_probs(ml.shout), <<>>)[1])

\* lines 1509-1512: ml_meta is appended when either step recorded anything
ml_meta_append(g, sh) ==
    IF g.meta_g # <<>> \/ sh.meta_s # <<>>
    THEN [sh.out EXCEPT !.alternatives =
             Append(@, [type |-> "ml-meta", g |-> g.meta_g, s |-> sh.meta_s])]
    ELSE sh.out

\* lines 1496-1513, g being the outcome of the gesture part
ml_after_gesture(c, rec, ml, g) ==
    IF c.stage \notin TALK_STAGES /\ ml.shout.status = "load_raises"
    \* the exception discards `out`, but out.alternatives is the
    \* list object of rec.alternatives (replace() copies shallowly)
    THEN [rec EXCEPT !.alternatives = g.out.alternatives]
    ELSE ml_meta_append(g, ml_shout_step(c, g.out, ml))

\* _maybe_apply_ml_inference as recommend sees it through its try/except:
\* the value of `final` after lines 1354-1357
_maybe_apply_ml_inference(c, rec, ml) ==
    IF ~ml.cfg_ok THEN rec
    ELSE IF ~ml.inference_enabled THEN rec
    ELSE IF c.stage \in ml.disabled_stages THEN rec
    ELSE IF ml.gesture.status = "load_raises" THEN rec
    ELSE ml_after_gesture(c, rec, ml, ml_gesture_step(c, rec, ml))

\* the ml-meta entry of rec.alternatives that the log row quotes
ml_meta_of(rec) ==
    IF \E i \in 1..Len(rec.alternatives) : rec.alternatives[i].type = "ml-meta"
    THEN LET i == CHOOSE k \in 1..Len(rec.alternatives) :
                     /\ rec.alternatives[k].type = "ml-meta"
                     /\ \A j \in 1..(k - 1) : rec.alternatives[j].type # "ml-meta"
         IN  <<rec.alternatives[i].g, rec.alternatives[i].s>>
    ELSE <<>>

\* _maybe_log_ml_features as recommend sees it: the rows it appends
_maybe_log_ml_features(c, rec, ab_stage, ml) ==
    IF ~ml.cfg_ok THEN <<>>
    ELSE IF ~ml.log_features THEN <<>>
    ELSE IF ml.log_fails THEN <<>>
    ELSE << [ab_stage |-> ab_stage, stage |-> c.stage, mentality |-> rec.mentality,
             gesture |-> rec.gesture, shout |-> rec.shout, talk |-> rec.team_talk,
             ml |-> ml_meta_of(rec)] >>

--------------------------------------------------------------------------
\* recommend

\* lines 1215-1221: with both goals set, score_state is assigned from them
derive_score_state_no_draw(c) ==
    IF HasGoals(c)
    THEN [c EXCEPT !.score_state =
             IF c.team_goals[1] > c.opponent_goals[1] THEN WINNING
             ELSE IF c.team_goals[1] < c.opponent_goals[1] THEN LOSING
             ELSE @]
    ELSE c

derive_score_state_keep_caller(c) ==
    IF HasGoals(c) /\ c.score_state = NULL
    THEN [c EXCEPT !.score_state =
             IF c.team_goals[1] > c.opponent_goals[1] THEN WINNING
             ELSE IF c.team_goals[1] < c.opponent_goals[1] THEN LOSING
             ELSE DRAWING]
    ELSE c

derive_score_state(c) ==
    IF HasGoals(c)
    THEN [c EXCEPT !.score_state =
             IF c.team_goals[1] > c.opponent_goals[1] THEN WINNING
             ELSE IF c.team_goals[1] < c.opponent_goals[1] THEN LOSING
             ELSE DRAWING]
    ELSE c

\* lines 1225-1227: (fav, fav_explanation); "" stands for the None of
\* fav_explanation when auto-detection is off
auto_detect(c, f) ==
    IF c.auto_fav_status THEN detect_fav_status(c, f.fav_cfg) ELSE <<c.fav_status, "">>

\* the Context object as recommend leaves it (lines 1215-1227)
normalized_context(c, f) ==
    [derive_score_state(c) EXCEPT !.fav_status = auto_detect(derive_score_state(c), f)[1]]

\* lines 1249-1271: the stages up to the tier-informed gesture step, on the
\* normalized Context c
stages_to_gesture(c, f, fav_explanation) ==
    LET base == pick_base_rule(c, f.base_rules, f.adv_cfg)
        with_specials == force_talk_stage_shout(c,
                            apply_special_overrides(c, base, f.special_overrides))
        with_stats == add_auto_status_note(
                            apply_context_stats_adjustments(c, with_specials),
                            fav_explanation)
        with_shout == choose_inplay_shout(c, with_stats, f.adv_cfg)
        with_time == apply_time_score_heuristics(c, with_shout)
        with_stats_live == apply_live_stats_heuristics(c, with_time)
        reacted == apply_reaction_adjustments(c, with_stats_live, f.reaction_rules)
    IN  apply_tier_informed_talk_adjustments(c,
            adjust_gesture_for_context(c, reacted), f.adv_cfg)

\* lines 1274-1347: from the stats overlay to the default audience; rec is
\* the harmonized recommendation
stages_after_harmonize(c, f, rec, pk) ==
    LET overlaid == adapt_talk_phrase_with_stats(c, rec, f.stmt_count, f.adv_cfg)
        capped == enforce_prematch_mentality_cap(c, overlaid)
        addressed == apply_preferred_audience(c, capped)
        scored == apply_tone_metadata(c, addressed)
        nudged == apply_units_and_nudges(c, scored, f.individual_count, pk)
    IN  apply_extra_notes(c, nudged)

NO_REC ==
    [ mentality |-> BALANCED, team_talk |-> "", gesture |-> "", shout |-> SHOUT_NONE,
      talk_audience |-> NULL, notes |-> <<>>, confidence |-> 0, risk |-> "neutral",
      alternatives |-> <<>>, nudges |-> <<>>, unit_notes |-> <<>> ]

\* The result of one call of recommend:
\*   ctx     the Context object after the call
\*   kind    "none" (returned None), "raised", or "rec"
\*   rec     the returned Recommendation (kind "rec")
\*   pre_ml  `final` before the ML bridge
\*   rows    the feature-log rows appended
Outcome(c, kind, rec, final, rows) ==
    [ctx |-> c, kind |-> kind, rec |-> rec, pre_ml |-> final, rows |-> rows]

\* lines 1349-1363: log, refine, log again, return
recommend_logged(c, f, final, refined) ==
    Outcome(c, "rec", refined, final,
            _maybe_log_ml_features(c, final, "pre-ml", f.ml)
            \o _maybe_log_ml_features(c, refined, "post-ml", f.ml))

\* lines 1349-1363, final being the Recommendation of line 1277
recommend_finish(c, f, final) ==
    recommend_logged(c, f, final, _maybe_apply_ml_inference(c, final, f.ml))

\* lines 1274-1363, h being the outcome of harmonize_talk_with_gesture
recommend_harmonized(c, f, pk, h) ==
    IF h.kind = "raised" THEN Outcome(c, "raised", NO_REC, NO_REC, <<>>)
    ELSE recommend_finish(c, f, stages_after_harmonize(c, f, h.rec, pk))

\* lines 1235-1363, c being the Context after lines 1215-1232
recommend_on(c, f, pk, fav_explanation) ==
    IF ~HasBase(c, f.base_rules, f.adv_cfg) THEN Outcome(c, "none", NO_REC, NO_REC, <<>>)
    ELSE recommend_harmonized(c, f, pk,
            harmonize_talk_with_gesture(c, stages_to_gesture(c, f, fav_explanation),
                                        f.stmt_count))

\* One call recommend(c0) with the files f and the random draws pk
recommend(c0, f, pk) ==
    recommend_on(normalized_context(c0, f), f, pk,
                 auto_detect(derive_score_state(c0), f)[2])

\* how the call recommend(c0) ends; the draws play no part in it, the last
\* statement that can raise uncaught is line 1272
recommend_outcome(c0, f) == recommend(c0, f, [k \in NUDGE_CALLS |-> 1]).kind

--------------------------------------------------------------------------
\* Bounds of the model

MaxGoals == 1        \* goals of either side range over None, 0..MaxGoals
MaxDelta == 6        \* largest |mentalityDelta| of a reaction rule
MaxIndividual == 2   \* statements per IndividualTalk category
MaxCalls == 2        \* recommend calls made on one Context
MaxRed == 1          \* red cards shown to the team range over 0..MaxRed
MaxDeficit == 2      \* goals behind at half-time range over 1..MaxDeficit
MaxEvents == 2       \* events appended to one session
MaxArchived == 1     \* sessions completed into the archive

--------------------------------------------------------------------------
\* Contexts the caller builds

STAGE_ORDER == <<PRE_MATCH, EARLY, MID, HALF_TIME, LATE, VERY_LATE, FULL_TIME>>

Ctx(stage, fav, venue, score) ==
    [ stage |-> stage, fav_status |-> fav, venue |-> venue, score_state |-> score,
      special_situations |-> {}, player_reactions |-> {},
      team_position |-> NoneNum, opponent_position |-> NoneNum,
      team_form |-> <<>>, opponent_form |-> <<>>,
      team_goals |-> NoneNum, opponent_goals |-> NoneNum,
      auto_fav_status |-> FALSE, preferred_talk_audience |-> NULL,
      morale_trend |-> NoneNum, ht_score_delta |-> NoneNum, xthreat_delta |-> NoneNum,
      cards_yellow |-> 0, cards_red |-> 0, injuries |-> 0,
      unit_ratings |-> [u \in {"Defence", "Midfield", "Attack"} |-> NoneNum],
      possession_pct |-> NoneNum, shots_for |-> NoneNum, shots_against |-> NoneNum,
      shots_on_target_for |-> NoneNum, shots_on_target_against |-> NoneNum,
      xg_for |-> NoneNum, xg_against |-> NoneNum ]

BasicContexts ==
    {Ctx(st, fv, vn, sc) : st \in MatchStage, fv \in FavStatus, vn \in Venue,
                           sc \in ScoreState \cup {NULL}}

OptGoals == {NoneNum} \cup {Some(g) : g \in 0..MaxGoals}

\* league table and form: unset, clearly better, clearly worse
Tables ==
    { [tp |-> NoneNum, op |-> NoneNum, tf |-> <<>>, of |-> <<>>],
      [tp |-> Some(3), op |-> Some(13),
       tf |-> <<"W", "W", "D", "L", "W">>, of |-> <<"L", "D", "L", "L", "D">>],
      [tp |-> Some(13), op |-> Some(3),
       tf |-> <<"L", "D", "L", "L", "D">>, of |-> <<"W", "W", "D", "L", "W">>] }

WithTable(c, t) ==
    [c EXCEPT !.team_position = t.tp, !.opponent_position = t.op,
              !.team_form = t.tf, !.opponent_form = t.of]

\* live stats: unset, out-shooting, under siege, low possession only
LiveStats ==
    { [poss |-> NoneNum, sf |-> NoneNum, sa |-> NoneNum, sof |-> NoneNum,
       soa |-> NoneNum, xf |-> NoneNum, xa |-> NoneNum],
      [poss |-> Some(55), sf |-> Some(10), sa |-> Some(4), sof |-> Some(5),
       soa |-> Some(2), xf |-> Some(18), xa |-> Some(6)],
      [poss |-> Some(35), sf |-> Some(2), sa |-> Some(12), sof |-> Some(0),
       soa |-> Some(5), xf |-> NoneNum, xa |-> NoneNum],
      [poss |-> Some(35), sf |-> NoneNum, sa |-> NoneNum, sof |-> NoneNum,
       soa |-> NoneNum, xf |-> NoneNum, xa |-> NoneNum] }

WithStats(c, l) ==
    [c EXCEPT !.possession_pct = l.poss, !.shots_for = l.sf, !.shots_against = l.sa,
              !.shots_on_target_for = l.sof, !.shots_on_target_against = l.soa,
              !.xg_for = l.xf, !.xg_against = l.xa]

\* score, goals, auto-detection and table vary; auto-detection without a
\* table is the same as a table without auto-detection being ignored
ScoreContexts ==
    {[WithTable(c, t) EXCEPT !.team_goals = tg, !.opponent_goals = og,
                             !.auto_fav_status = (t.tp # NoneNum /\ au)] :
        c \in BasicContexts, t \in Tables, tg \in OptGoals, og \in OptGoals,
        au \in BOOLEAN}

\* reactions and special situations vary
ReactionContexts ==
    {[c EXCEPT !.player_reactions = pr, !.special_situations = sp] :
        c \in BasicContexts, pr \in SUBSET {NERVOUS, COMPLACENT},
        sp \in {{}, {PROMOTION}}}

\* live stats, half-time delta, discipline and talk audience vary
Sidelines ==
    { [rc |-> 0, au |-> NULL, ht |-> NoneNum], [rc |-> 1, au |-> NULL, ht |-> NoneNum],
      [rc |-> 0, au |-> "Leaders", ht |-> NoneNum], [rc |-> 0, au |-> NULL, ht |-> Some(-1)],
      [rc |-> 1, au |-> "Leaders", ht |-> Some(-2)] }

LiveContexts ==
    {[WithStats(c, l) EXCEPT !.ht_score_delta = sd.ht, !.cards_red = sd.rc,
                             !.preferred_talk_audience = sd.au] :
        c \in {b \in BasicContexts : b.score_state # NULL}, l \in LiveStats,
        sd \in Sidelines}

\* what the tone matrix reads: special situations, discipline, injuries,
\* morale, momentum and the half-time delta
Moods ==
    { [mt |-> NoneNum, xt |-> NoneNum], [mt |-> Some(-1), xt |-> Some(-25)],
      [mt |-> Some(1), xt |-> Some(25)] }

Knocks == {[cy |-> 0, inj |-> 0], [cy |-> 3, inj |-> 2]}

ToneContexts ==
    {[c EXCEPT !.special_situations = sp, !.cards_red = rc, !.cards_yellow = k.cy,
               !.injuries = k.inj, !.morale_trend = md.mt, !.xthreat_delta = md.xt,
               !.ht_score_delta = ht] :
        c \in {b \in BasicContexts : /\ b.score_state = LOSING
                                      /\ b.stage \in {PRE_MATCH, MID, HALF_TIME, FULL_TIME}},
        sp \in {{}, {DERBY}, {FINAL}, {DERBY, FINAL, CUP}},
        rc \in 0..MaxRed, k \in Knocks, md \in Moods, ht \in {NoneNum, Some(-1)}}

\* an early goal either way, with or without a nervous player
EarlyGoalContexts ==
    {[c EXCEPT !.team_goals = Some(tg), !.opponent_goals = Some(og),
               !.player_reactions = pr] :
        c \in {b \in BasicContexts : b.stage = EARLY},
        tg \in 0..MaxGoals, og \in 0..MaxGoals, pr \in {{}, {NERVOUS}}}

\* behind at half-time by one goal or more, with or without a reaction
HalfTimeDeficits ==
    {[c EXCEPT !.ht_score_delta = Some(-d), !.player_reactions = pr] :
        c \in {b \in BasicContexts : b.stage = HALF_TIME /\ b.score_state = LOSING},
        d \in 1..MaxDeficit, pr \in {{}, {NERVOUS}, {COMPLACENT}}}

\* auto-detection with a full table, with form only, and with a small gap
\* in the table (7th away at the 5th, in slightly better form)
FormOnly ==
    [tp |-> NoneNum, op |-> NoneNum,
     tf |-> <<"W", "W", "D", "L", "W">>, of |-> <<"L", "D", "L", "L", "D">>]

SmallGap ==
    [tp |-> Some(7), op |-> Some(5),
     tf |-> <<"L", "W", "L", "D", "W">>, of |-> <<"L", "L", "L", "W", "D">>]

\* the leaders, on a winning run, against the bottom side on a losing run
TopVsBottom ==
    [tp |-> Some(1), op |-> Some(20),
     tf |-> <<"W", "W", "W", "W", "W">>, of |-> <<"L", "L", "L", "L", "L">>]

AutoContexts ==
    {[WithTable(c, t) EXCEPT !.auto_fav_status = TRUE] :
        c \in {b \in BasicContexts : b.stage \in {PRE_MATCH, HALF_TIME}
                                      /\ b.score_state = DRAWING},
        t \in Tables \cup {FormOnly, SmallGap, TopVsBottom}}

\* the leaders at the bottom side, league positions known and form not
PositionsOnly == [tp |-> Some(1), op |-> Some(20), tf |-> <<>>, of |-> <<>>]

\* level in the closing stages, with the table known
ClosingContexts ==
    {WithTable(c, t) :
        c \in {b \in BasicContexts : b.stage \in {LATE, VERY_LATE}
                                      /\ b.score_state = DRAWING},
        t \in {PositionsOnly, TopVsBottom}}

\* before kick-off, level, with every table
TierContexts ==
    {WithTable(c, t) :
        c \in {b \in BasicContexts : b.stage = PRE_MATCH /\ b.score_state = DRAWING},
        t \in Tables \cup {FormOnly, SmallGap, TopVsBottom, PositionsOnly}}

\* the contexts the model store is exercised on
MLContexts == {c \in BasicContexts : c.venue = HOME /\ c.score_state # NULL}

--------------------------------------------------------------------------
\* Contents of the rule, catalog and config files

When(stage, fav, venue, score, special, tier) ==
    [stage |-> stage, favStatus |-> fav, venue |-> venue, scoreState |-> score,
     special |-> special, tier |-> tier]

Advice(mentality, talk, gesture, shout, notes) ==
    [mentality |-> mentality, teamTalk |-> talk, gesture |-> gesture, shout |-> shout,
     audience |-> NULL, notes |-> notes]

\* a stage-only rule per stage, in stage order: a shout is written even on
\* the talk-stage rules, and the talk text is left empty
GenericRules ==
    [i \in 1..Len(STAGE_ORDER) |->
        [when |-> When(STAGE_ORDER[i], NULL, NULL, NULL, {}, {}),
         recommendation |->
            IF STAGE_ORDER[i] \in TALK_STAGES
            THEN Advice(BALANCED, "", OUTSTRETCHED_ARMS, "Encourage", <<"Keep it simple.">>)
            ELSE Advice(BALANCED, "", HANDS_ON_HIPS, SHOUT_NONE, <<"Keep it simple.">>)]]

SpecificRules ==
    << [when |-> When(PRE_MATCH, FAVOURITE, HOME, NULL, {}, {}),
        recommendation |-> Advice(ATTACKING, "Expect a win.", POINT_FINGER, "Demand More",
                                  <<"Set the standard.">>)],
       [when |-> When(PRE_MATCH, UNDERDOG, NULL, NULL, {}, {}),
        recommendation |-> Advice(DEFENSIVE, "", OUTSTRETCHED_ARMS, SHOUT_NONE, <<>>)],
       [when |-> When(HALF_TIME, NULL, NULL, LOSING, {}, {}),
        recommendation |-> Advice(POSITIVE, SHOW_ME, POINT_FINGER, SHOUT_NONE,
                                  <<"Keep it simple.">>)],
       [when |-> When(LATE, FAVOURITE, NULL, LOSING, {}, {}),
        recommendation |-> Advice(VERY_ATTACKING, "", HANDS_ON_HIPS, SHOUT_NONE, <<>>)],
       [when |-> When(EARLY, UNDERDOG, AWAY, NULL, {}, {}),
        recommendation |-> Advice(DEFENSIVE, "", HANDS_TOGETHER, SHOUT_NONE, <<>>)],
       [when |-> When(FULL_TIME, NULL, NULL, NULL, {PROMOTION, CUP}, {}),
        recommendation |-> Advice(POSITIVE, "We did it!", OUTSTRETCHED_ARMS, "Praise", <<>>)],
       [when |-> When(HALF_TIME, NULL, NULL, DRAWING, {},
                      {STRONG_FAVOURITE, SLIGHT_FAVOURITE}),
        recommendation |-> Advice(POSITIVE, "", POINT_FINGER, SHOUT_NONE, <<>>)],
       [when |-> When(EARLY, NULL, NULL, WINNING, {}, {}),
        recommendation |-> Advice(BALANCED, "", HANDS_TOGETHER, "Focus", <<>>)] >>

\* a rule file whose author spelled the pre-match cap out in the notes of
\* the rule it applies to
CapNoteRules ==
    << [when |-> When(PRE_MATCH, FAVOURITE, NULL, NULL, {}, {}),
        recommendation |-> Advice(VERY_ATTACKING, "Expect a win.", POINT_FINGER, SHOUT_NONE,
                                  <<"Pre-match cap: start no higher than Positive.">>)] >>

BaseRuleFiles ==
    {GenericRules \o SpecificRules, SpecificRules, <<>>, CapNoteRules \o GenericRules}

NoOverride == [teamTalk |-> "", gesture |-> "", shout |-> NULL, mentality |-> NoneNum]

PromotionOverrides ==
    << [tag |-> PROMOTION,
        overrides |->
          [preMatch |-> [NoOverride EXCEPT !.shout = "Praise",
                                           !.mentality = Some(VERY_ATTACKING)],
           fullTimeWin |-> [NoOverride EXCEPT !.teamTalk = "Promotion party!",
                                              !.gesture = OUTSTRETCHED_ARMS],
           halfTimeLosing |-> [NoOverride EXCEPT !.mentality = Some(DEFENSIVE),
                                                 !.gesture = THRASH_ARMS]]] >>

SpecialOverrideFiles == {<<>>, PromotionOverrides}

Adjustment(talk, gesture, shout, delta, notes) ==
    [teamTalk |-> talk, gesture |-> gesture, shout |-> shout, mentalityDelta |-> delta,
     notes |-> notes]

NervousRule ==
    [reaction |-> NERVOUS,
     adjustment |-> Adjustment("", "", "Encourage", -1,
                               <<"Reduce pressure; supportive tone.">>)]

ComplacentRule ==
    [reaction |-> COMPLACENT,
     adjustment |-> Adjustment("", POINT_FINGER, "Demand More", MaxDelta,
                               <<"Challenge effort.", "Keep it simple.">>)]

CalmDownRule ==
    [reaction |-> NERVOUS,
     adjustment |-> Adjustment("Calm down.", "", NULL, -MaxDelta, <<>>)]

ReactionRuleFiles ==
    { <<>>, <<NervousRule>>, <<NervousRule, ComplacentRule>>,
      <<ComplacentRule, NervousRule>>, <<CalmDownRule, ComplacentRule>> }

\* statements.json: every gesture has two phrases; none has any; or only
\* some gestures have phrases of their own
StatementFiles ==
    { [g \in Gestures |-> 2],
      [g \in Gestures |-> 0],
      [g \in Gestures |-> IF g \in {HANDS_TOGETHER, POINT_FINGER} THEN 0
                          ELSE IF g = HANDS_ON_HIPS THEN 3 ELSE 1] }

NoModel == [status |-> "missing", probs |-> <<>>]

ML_OFF ==
    [ cfg_ok |-> TRUE, inference_enabled |-> FALSE, weight_high |-> FALSE,
      disabled_stages |-> {}, gesture |-> NoModel, shout |-> NoModel,
      log_features |-> FALSE, log_fails |-> FALSE ]

GestureModels ==
    { [status |-> "ok", probs |-> << <<THRASH_ARMS, 45>>, <<OUTSTRETCHED_ARMS, 55>> >>],
      [status |-> "ok", probs |-> << <<OUTSTRETCHED_ARMS, 100>> >>],
      [status |-> "ok", probs |-> << <<PUMP_FISTS, 35>>, <<POINT_FINGER, 35>>,
                                     <<HANDS_TOGETHER, 30>> >>],
      NoModel,
      [status |-> "load_fails", probs |-> <<>>],
      [status |-> "predict_fails", probs |-> <<>>],
      [status |-> "load_raises", probs |-> <<>>] }

ShoutModels ==
    { [status |-> "ok", probs |-> << <<"Praise", 30>>, <<"Fire Up", 70>> >>],
      NoModel,
      [status |-> "load_fails", probs |-> <<>>],
      [status |-> "predict_fails", probs |-> <<>>],
      [status |-> "load_raises", probs |-> <<>>] }

MLFiles ==
    {[ML_OFF EXCEPT !.inference_enabled = TRUE, !.weight_high = wh, !.gesture = g,
                    !.shout = sh, !.log_features = TRUE] :
        wh \in BOOLEAN, g \in GestureModels, sh \in ShoutModels}
    \cup {[ML_OFF EXCEPT !.log_features = TRUE],
          [ML_OFF EXCEPT !.log_features = TRUE, !.log_fails = TRUE],
          [ML_OFF EXCEPT !.inference_enabled = TRUE, !.weight_high = TRUE,
                         !.log_features = TRUE, !.log_fails = TRUE,
                         !.gesture = [status |-> "ok", probs |-> << <<THRASH_ARMS, 90>> >>]],
          [ML_OFF EXCEPT !.cfg_ok = FALSE, !.inference_enabled = TRUE,
                         !.log_features = TRUE,
                         !.gesture = [status |-> "ok", probs |-> << <<THRASH_ARMS, 90>> >>]],
          [ML_OFF EXCEPT !.inference_enabled = TRUE, !.weight_high = TRUE,
                         !.disabled_stages = {HALF_TIME, EARLY},
                         !.gesture = [status |-> "ok", probs |-> << <<THRASH_ARMS, 90>> >>]]}

DEFAULT_FILES ==
    [ base_rules |-> GenericRules \o SpecificRules,
      special_overrides |-> PromotionOverrides,
      reaction_rules |-> <<NervousRule, ComplacentRule>>,
      stmt_count |-> [g \in Gestures |-> 2],
      individual_count |-> 1,
      fav_cfg |-> DEFAULT_FAV_CFG,
      adv_cfg |-> DEFAULT_ADV_CFG,
      ml |-> ML_OFF ]

\* the rule and catalog files vary one at a time around the default
RuleFileSets ==
    {[DEFAULT_FILES EXCEPT !.base_rules = b] : b \in BaseRuleFiles}
    \cup {[DEFAULT_FILES EXCEPT !.reaction_rules = r] : r \in ReactionRuleFiles}
    \cup {[DEFAULT_FILES EXCEPT !.stmt_count = st] : st \in StatementFiles}

\* statements.json "IndividualTalk": each category has n statements
IndividualFileSets ==
    {[DEFAULT_FILES EXCEPT !.individual_count = n] : n \in 0..MaxIndividual}

SpecialFileSets ==
    {[DEFAULT_FILES EXCEPT !.special_overrides = sp] : sp \in SpecialOverrideFiles}

\* the model store varies; with the sparse rule file the log is switched on
MLFileSets ==
    {[DEFAULT_FILES EXCEPT !.ml = ml] : ml \in MLFiles}
    \cup {[DEFAULT_FILES EXCEPT !.base_rules = SpecificRules,
                                !.ml = [ML_OFF EXCEPT !.log_features = TRUE]]}

\* rule files with and without the early-lead rule
EarlyGoalFileSets == {DEFAULT_FILES, [DEFAULT_FILES EXCEPT !.base_rules = GenericRules]}

\* engine_config.json "favourite_detection": the defaults, the stricter away
\* rules, and weights under which one component alone reaches the threshold
FavConfigs ==
    { DEFAULT_FAV_CFG,
      [DEFAULT_FAV_CFG EXCEPT !.require_both_away = TRUE],
      [DEFAULT_FAV_CFG EXCEPT !.require_both_away = TRUE, !.away_penalty = 1],
      [DEFAULT_FAV_CFG EXCEPT !.require_both_away = TRUE, !.form_weight = 2],
      [DEFAULT_FAV_CFG EXCEPT !.require_both_away = TRUE, !.pos_weight = 2],
      [DEFAULT_FAV_CFG EXCEPT !.never_fav_away_if_pos_gap_disadv_ge = 2] }

FavFileSets == {[DEFAULT_FILES EXCEPT !.fav_cfg = fc] : fc \in FavConfigs}

\* engine_config.json "advantage_model": the defaults, and an even band of
\* +-0.5 that leaves a gap below the slight-favourite and above the
\* slight-underdog cutoff
NarrowEvenBand == [DEFAULT_ADV_CFG EXCEPT !.thr_even_hi = 100, !.thr_even_lo = -100]

AdvFileSets == {[DEFAULT_FILES EXCEPT !.adv_cfg = NarrowEvenBand]}

\* a scenario: the Context the caller built and the files on disk
Scenarios ==
    (ScoreContexts \X {DEFAULT_FILES})
    \cup (LiveContexts \X {DEFAULT_FILES})
    \cup ({c \in ReactionContexts : c.special_situations = {}} \X RuleFileSets)
    \cup ({c \in ReactionContexts : c.special_situations # {}} \X SpecialFileSets)
    \cup ({c \in ReactionContexts : /\ c.special_situations = {}
                                     /\ c.venue = HOME /\ c.fav_status = FAVOURITE}
          \X IndividualFileSets)
    \cup (ToneContexts \X {DEFAULT_FILES})
    \cup (EarlyGoalContexts \X EarlyGoalFileSets)
    \cup (HalfTimeDeficits \X {DEFAULT_FILES})
    \cup (AutoContexts \X FavFileSets)
    \cup (ClosingContexts \X {DEFAULT_FILES})
    \cup (TierContexts \X AdvFileSets)
    \cup (MLContexts \X MLFileSets)

--------------------------------------------------------------------------
\* The state machine: a caller holding one Context calls recommend

IDLE == [kind |-> "idle", rec |-> NO_REC]

\* no SessionManager call made yet
NO_CALL == [op |-> "none", name |-> <<>>, raised |-> NULL, before |-> <<>>]

\* the session store is not touched by recommend
NoSessions == active_file = <<>> /\ archive_file = <<>> /\ session_call = NO_CALL

\* no recommend call is in flight
NO_EVALUATION == [pc |-> "idle", expl |-> "", rec |-> NO_REC, reads |-> <<>>]

\* the SessionManager instances, none of them inside a call
Managers == {"m1", "m2"}

NO_MANAGER_CALLS ==
    [m \in Managers |-> [pc |-> "idle", session |-> <<>>, event |-> <<>>, logged |-> <<>>]]

\* calls run to completion, one at a time
Sequential == evaluation = NO_EVALUATION /\ managers = NO_MANAGER_CALLS

Init ==
    /\ NoSessions /\ Sequential
    /\ \E sc \in Scenarios : context = sc[1] /\ files = sc[2]
    /\ ctx_in = context
    /\ prev_ctx_in = context
    /\ out = IDLE
    /\ prev_out = IDLE
    /\ pre_ml = NO_REC
    /\ feature_log = <<>>
    /\ calls = 0

\* the draws random.choice can make in this call; a draw that is not made,
\* or has at most one statement to pick from, is fixed at 1
Draws(c, f) ==
    {pk \in [NUDGE_CALLS -> 1..Max(1, f.individual_count)] :
        \A k \in NUDGE_CALLS : k \notin nudge_calls_made(c) => pk[k] = 1}

\* the effect of one call whose result is r
Returned(r) ==
    /\ context' = r.ctx
    /\ ctx_in' = context
    /\ prev_ctx_in' = ctx_in
    /\ out' = [kind |-> r.kind, rec |-> r.rec]
    /\ prev_out' = out
    /\ pre_ml' = r.pre_ml
    /\ feature_log' = feature_log \o r.rows
    /\ calls' = calls + 1
    /\ UNCHANGED <<files, active_file, archive_file, session_call, evaluation, managers>>

\* recommend(context) finds no base rule and returns None
RecommendNone ==
    /\ calls < MaxCalls
    /\ recommend_outcome(context, files) = "none"
    /\ \E pk \in Draws(normalized_context(context, files), files) :
          Returned(recommend(context, files, pk))

\* recommend(context) raises out of harmonize_talk_with_gesture
RecommendRaises ==
    /\ calls < MaxCalls
    /\ recommend_outcome(context, files) = "raised"
    /\ \E pk \in Draws(normalized_context(context, files), files) :
          Returned(recommend(context, files, pk))

\* recommend(context) returns a Recommendation
RecommendReturns ==
    /\ calls < MaxCalls
    /\ recommend_outcome(context, files) = "rec"
    /\ \E pk \in Draws(normalized_context(context, files), files) :
          Returned(recommend(context, files, pk))

Next == RecommendNone \/ RecommendRaises \/ RecommendReturns

Spec == Init /\ [][Next]_vars

--------------------------------------------------------------------------
\* SessionManager (src/services/session.py): one active session kept in
\* active.json, completed sessions appended to sessions.jsonl.  Names are
\* sequences of characters; timestamps are left out.

\* str.strip() for the blank character
RECURSIVE lstrip(_)
lstrip(s) == IF s # <<>> /\ Head(s) = " " THEN lstrip(Tail(s)) ELSE s

RECURSIVE rstrip(_)
rstrip(s) == IF s # <<>> /\ s[Len(s)] = " " THEN rstrip(SubSeq(s, 1, Len(s) - 1)) ELSE s

strip(s) == rstrip(lstrip(s))

\* serialize_context keeps the fourteen core fields; a falsy score_state or
\* preferred audience is written as None
serialize_context(ctx) ==
    [ stage |-> ctx.stage, fav_status |-> ctx.fav_status, venue |-> ctx.venue,
      score_state |-> ctx.score_state,
      special_situations |-> ctx.special_situations,
      player_reactions |-> ctx.player_reactions,
      team_position |-> ctx.team_position, opponent_position |-> ctx.opponent_position,
      team_form |-> ctx.team_form, opponent_form |-> ctx.opponent_form,
      team_goals |-> ctx.team_goals, opponent_goals |-> ctx.opponent_goals,
      auto_fav_status |-> ctx.auto_fav_status,
      preferred_talk_audience |-> ctx.preferred_talk_audience ]

\* what callers pass in
SessionNames == {<<>>, <<" ">>, <<" ", "A">>, <<"B", " ">>}
SessionContexts ==
    { Ctx(PRE_MATCH, FAVOURITE, HOME, NULL),
      [Ctx(HALF_TIME, UNDERDOG, AWAY, LOSING) EXCEPT !.cards_red = 1] }
SessionEvents == {[type |-> "recommendation"]}
SessionOutcomes == {"Win"}

\* str(uuid.uuid4())[:8]: a random draw, which may repeat
SessionIds == {"1a2b3c4d", "5e6f7a8b"}

\* a SessionManager call records itself and leaves the engine's state alone
Called(op, name, raised) ==
    /\ session_call' = [op |-> op, name |-> name, raised |-> raised,
                         before |-> active_file]
    /\ UNCHANGED <<context, ctx_in, prev_ctx_in, files, out, pre_ml, prev_out,
                   feature_log, calls, evaluation, managers>>

\* SessionManager.start(context, name)
Start_ignore_active ==
    \E ctx \in SessionContexts, name \in SessionNames, id \in SessionIds :
        IF strip(name) = <<>>
        THEN Called("start", name, "ValueError") /\ UNCHANGED <<active_file, archive_file>>
        ELSE /\ active_file' = << [id |-> id, status |-> "active", name |-> strip(name),
                                    context |-> serialize_context(ctx), events |-> <<>>] >>
             /\ Called("start", name, NULL)
             /\ UNCHANGED archive_file

Start ==
    \E ctx \in SessionContexts, name \in SessionNames, id \in SessionIds :
        IF active_file # <<>>
        THEN Called("start", name, "RuntimeError") /\ UNCHANGED <<active_file, archive_file>>
        ELSE IF strip(name) = <<>>
        THEN Called("start", name, "ValueError") /\ UNCHANGED <<active_file, archive_file>>
        ELSE /\ active_file' = << [id |-> id, status |-> "active", name |-> strip(name),
                                    context |-> serialize_context(ctx), events |-> <<>>] >>
             /\ Called("start", name, NULL)
             /\ UNCHANGED archive_file

\* event["ts"] = datetime.utcnow(): the clock is read as the number of the
\* event within its session
Stamped(event, now) == [type |-> event.type, ts |-> now]

\* SessionManager.append_event(event)
AppendEvent ==
    \E event \in SessionEvents :
        IF active_file = <<>>
        THEN Called("append_event", <<>>, "RuntimeError")
             /\ UNCHANGED <<active_file, archive_file>>
        ELSE /\ Len(active_file[1].events) < MaxEvents
             /\ active_file' = << [active_file[1] EXCEPT
                                      !.events = Append(@, Stamped(event, Len(@) + 1))] >>
             /\ Called("append_event", <<>>, NULL)
             /\ UNCHANGED archive_file

\* complete() that appends to the archive and leaves active.json in place
Complete_keeps_active ==
    \E outcome \in SessionOutcomes :
        IF active_file = <<>>
        THEN Called("complete", <<>>, "RuntimeError")
             /\ UNCHANGED <<active_file, archive_file>>
        ELSE /\ Len(archive_file) < MaxArchived
             /\ archive_file' = Append(archive_file,
                    [id |-> active_file[1].id, status |-> "completed",
                     name |-> active_file[1].name, context |-> active_file[1].context,
                     events |-> active_file[1].events, outcome |-> outcome])
             /\ UNCHANGED active_file
             /\ Called("complete", <<>>, NULL)

\* SessionManager.complete(outcome, notes)
Complete ==
    \E outcome \in SessionOutcomes :
        IF active_file = <<>>
        THEN Called("complete", <<>>, "RuntimeError")
             /\ UNCHANGED <<active_file, archive_file>>
        ELSE /\ Len(archive_file) < MaxArchived
             /\ archive_file' = Append(archive_file,
                    [id |-> active_file[1].id, status |-> "completed",
                     name |-> active_file[1].name, context |-> active_file[1].context,
                     events |-> active_file[1].events, outcome |-> outcome])
             /\ active_file' = <<>>
             /\ Called("complete", <<>>, NULL)

\* SessionManager.cancel()
Cancel ==
    /\ active_file' = <<>>
    /\ Called("cancel", <<>>, NULL)
    /\ UNCHANGED archive_file

\* the recommendation engine is idle while sessions are managed
SessionInit ==
    /\ NoSessions /\ Sequential
    /\ context = Ctx(PRE_MATCH, FAVOURITE, HOME, NULL) /\ files = DEFAULT_FILES
    /\ ctx_in = context /\ prev_ctx_in = context
    /\ out = IDLE /\ prev_out = IDLE /\ pre_ml = NO_REC
    /\ feature_log = <<>> /\ calls = 0

SessionNext == Start \/ AppendEvent \/ Complete \/ Cancel

SessionSpec == SessionInit /\ [][SessionNext]_vars

--------------------------------------------------------------------------
\* Properties of recommend.  `returned` says the latest call returned a
\* Recommendation.

returned == out.kind = "rec"

\* C1: at the talk stages (pre-match, half-time, full-time) the returned
\* shout is none, whatever base rule, special overrides, reaction rules and
\* ML refinement did.
C1_TalkStageShoutNone ==
    (returned /\ context.stage \in TALK_STAGES) => out.rec.shout = SHOUT_NONE

\* the reaction rule at position i gives Nervous the shout Encourage
NervousEncourage(rules, i) ==
    rules[i].reaction = NERVOUS /\ rules[i].adjustment.shout = "Encourage"

\* C2 as stated: Nervous among the reactions, and a reaction rule giving
\* Nervous the shout Encourage, make the returned shout Encourage.
C2_NervousShoutEncourage ==
    ( /\ returned
      /\ NERVOUS \in context.player_reactions
      /\ \E i \in DOMAIN files.reaction_rules : NervousEncourage(files.reaction_rules, i) )
    => out.rec.shout = "Encourage"

\* C2, amended: the returned shout is Encourage, at the talk stages too,
\* provided no reaction rule later in the list that also matches the
\* Context's reactions carries another shout (the last matching rule with
\* a shout decides).
C2_LastMatchingShoutWins ==
    ( /\ returned
      /\ NERVOUS \in context.player_reactions
      /\ \E i \in DOMAIN files.reaction_rules :
            /\ NervousEncourage(files.reaction_rules, i)
            /\ \A j \in (i + 1)..Len(files.reaction_rules) :
                  files.reaction_rules[j].reaction \in context.player_reactions
                  => files.reaction_rules[j].adjustment.shout \in {NULL, "Encourage"} )
    => out.rec.shout = "Encourage"

\* the case of test_reaction_adjustment_changes_shout: pre-match, home,
\* favourite, Nervous, and the shout came back as Encourage
C2_Witness ==
    /\ returned
    /\ context.stage = PRE_MATCH /\ context.venue = HOME /\ context.fav_status = FAVOURITE
    /\ context.player_reactions = {NERVOUS}
    /\ files.reaction_rules # <<>>
    /\ NervousEncourage(files.reaction_rules, 1)
    /\ out.rec.shout = "Encourage"

\* C3: the returned mentality is always within [-2, +3], whatever the
\* rules and the (arbitrary) reaction deltas.
C3_MentalityInRange ==
    returned => out.rec.mentality \in DEFENSIVE..VERY_ATTACKING

\* a matching reaction rule whose delta alone overshoots the range from any
\* mentality, and the result sits on the upper end
C3_Witness ==
    /\ returned
    /\ \E i \in DOMAIN files.reaction_rules :
          /\ files.reaction_rules[i].reaction \in context.player_reactions
          /\ files.reaction_rules[i].adjustment.mentalityDelta
                > VERY_ATTACKING - DEFENSIVE
    /\ context.player_reactions = {COMPLACENT}
    /\ out.rec.mentality = VERY_ATTACKING

\* C4: at pre-match the returned mentality is never above Positive (+1).
C4_PreMatchCap ==
    (returned /\ context.stage = PRE_MATCH) => out.rec.mentality <= POSITIVE

\* a pre-match call in which the cap acted (it leaves its note)
C4_Witness ==
    /\ returned
    /\ context.stage = PRE_MATCH
    /\ InSeq("Pre-match cap: start no higher than Positive.", out.rec.notes)
    /\ out.rec.mentality = POSITIVE

\* the score state that goals tg : og stand for
ScoreOf(tg, og) == IF tg > og THEN WINNING ELSE IF tg < og THEN LOSING ELSE DRAWING

\* C5: with both goals set, the score state the pipeline works with (it is
\* written into the Context before rule matching) is the one the goals
\* stand for, whatever the caller supplied.
C5_ScoreStateFromGoals ==
    (calls > 0 /\ ctx_in.team_goals # NoneNum /\ ctx_in.opponent_goals # NoneNum)
    => context.score_state = ScoreOf(ctx_in.team_goals[1], ctx_in.opponent_goals[1])

\* the caller said Winning, the goals say otherwise, and the goals won
C5_Witness ==
    /\ returned
    /\ ctx_in.team_goals # NoneNum /\ ctx_in.opponent_goals # NoneNum
    /\ ctx_in.score_state = WINNING
    /\ context.score_state # WINNING

\* C6: two calls on equal Contexts, with the same files, return the same
\* result in every field.
C6_SameContextSameResult ==
    (calls >= 2 /\ ctx_in = prev_ctx_in) => out = prev_out

\* C7: recommend leaves the Context it was given as it was.
C7_ContextNotModified ==
    calls > 0 => context = ctx_in

\* C8: no pipeline stage after base-rule matching raises.
C8_NoStageRaises ==
    out.kind # "raised"

\* what can fail in the ML bridge during a call on Context c
ConfigFails(ml) == ~ml.cfg_ok

InferenceRuns(ml, c) ==
    ml.cfg_ok /\ ml.inference_enabled /\ c.stage \notin ml.disabled_stages

FAILING == {"load_fails", "predict_fails", "load_raises"}

GestureModelFails(ml, c) == InferenceRuns(ml, c) /\ ml.gesture.status \in FAILING

\* the shout model is touched only in play, and only after the gesture part
ShoutModelFails(ml, c) ==
    /\ InferenceRuns(ml, c) /\ ml.gesture.status # "load_raises"
    /\ c.stage \notin TALK_STAGES
    /\ ml.shout.status \in FAILING

LogFails(ml) == ml.cfg_ok /\ ml.log_features /\ ml.log_fails

MLFailure(ml, c) ==
    ConfigFails(ml) \/ GestureModelFails(ml, c) \/ ShoutModelFails(ml, c) \/ LogFails(ml)

\* C9: when the config, a model load, a prediction or the feature log
\* fails, recommend raises nothing and returns exactly the Recommendation of
\* the rules-only pipeline.
C9_MLFailureMeansRulesOnly ==
    (calls > 0 /\ out.kind # "none" /\ MLFailure(files.ml, context))
    => (returned /\ out.rec = pre_ml)

\* rule condition w rules the Context out (one of the `continue`s fires)
Eliminated(c, w, m) ==
    \/ w.stage # c.stage
    \/ w.tier # {} /\ detect_matchup_tier(c, m)[1] \notin w.tier
    \/ w.favStatus # NULL /\ ~c.auto_fav_status /\ w.favStatus # c.fav_status
    \/ w.venue # NULL /\ w.venue # c.venue
    \/ w.scoreState # NULL /\ w.scoreState # c.score_state
    \/ w.special # {} /\ w.special \cap c.special_situations = {}

NoCandidate ==
    \A i \in DOMAIN files.base_rules :
        Eliminated(context, files.base_rules[i].when, files.adv_cfg)

\* C10: with no candidate rule, recommend returns None, raises nothing and
\* runs no later stage (nothing of a Recommendation is built, no row is
\* logged).
C10_NoCandidateReturnsNone ==
    (calls > 0 /\ NoCandidate)
    => (out.kind = "none" /\ out.rec = NO_REC /\ pre_ml = NO_REC /\ feature_log = <<>>)

\* rules of the Context's stage exist, all are eliminated, the log is on
C10_Witness ==
    /\ calls > 0 /\ NoCandidate
    /\ \E i \in DOMAIN files.base_rules : files.base_rules[i].when.stage = context.stage
    /\ files.ml.log_features
    /\ out.kind = "none"

\* the optional conditions of rule condition w that matched Context c
Specificity(c, w) ==
    Cardinality({k \in {"tier", "favStatus", "venue", "scoreState", "special"} :
        \/ k = "tier" /\ w.tier # {}
        \/ k = "favStatus" /\ w.favStatus # NULL /\ w.favStatus = c.fav_status
        \/ k = "venue" /\ w.venue # NULL
        \/ k = "scoreState" /\ w.scoreState # NULL
        \/ k = "special" /\ w.special # {}})

\* the rules that survived elimination in the latest call
Survivors == Candidates(context, files.base_rules, files.adv_cfg)

\* the rule the latest call picked
Picked == TopCandidate(context, files.base_rules, files.adv_cfg)

\* C11: among the surviving rules pick_base_rule selects one of highest
\* specificity, and among those tied on it the first of the rule list.
C11_MostSpecificThenFirst ==
    (calls > 0 /\ Survivors # {})
    => /\ Picked \in Survivors
       /\ \A j \in Survivors :
             /\ Specificity(context, files.base_rules[Picked].when)
                   >= Specificity(context, files.base_rules[j].when)
             /\ Specificity(context, files.base_rules[Picked].when)
                   = Specificity(context, files.base_rules[j].when) => Picked <= j

\* a less specific survivor comes earlier in the list than the picked rule,
\* and an equally specific one comes later
C11_Witness ==
    /\ returned /\ Survivors # {}
    /\ \E j \in Survivors :
          /\ j < Picked
          /\ Specificity(context, files.base_rules[j].when)
                < Specificity(context, files.base_rules[Picked].when)
    /\ \E j \in Survivors :
          /\ j > Picked
          /\ Specificity(context, files.base_rules[j].when)
                = Specificity(context, files.base_rules[Picked].when)

\* the rule at position i names a favourite status other than the Context's
FavMismatch(i) ==
    /\ files.base_rules[i].when.favStatus # NULL
    /\ files.base_rules[i].when.favStatus # context.fav_status

\* C12: a rule is eliminated exactly when its stage differs, its venue or
\* scoreState is set and differs, its special set is non-empty and disjoint
\* from the Context's, its tier set is present and lacks the current tier,
\* or (auto-detect off only) its favStatus is set and differs; in
\* auto-detect mode a favStatus mismatch keeps the rule and adds no point.
C12_EliminationConditions ==
    calls > 0 =>
    \A i \in DOMAIN files.base_rules :
        /\ i \in Survivors
              <=> ~Eliminated(context, files.base_rules[i].when, files.adv_cfg)
        /\ (i \in Survivors /\ context.auto_fav_status /\ FavMismatch(i))
              => rule_score(context, files.base_rules[i].when)
                    = rule_score(context,
                                 [files.base_rules[i].when EXCEPT !.favStatus = NULL])

\* in auto-detect mode a rule naming the other favourite status survived,
\* while a rule of the same stage was eliminated by another condition
C12_Witness ==
    /\ returned /\ context.auto_fav_status
    /\ \E i \in Survivors : FavMismatch(i)
    /\ \E j \in DOMAIN files.base_rules :
          /\ files.base_rules[j].when.stage = context.stage
          /\ j \notin Survivors

\* what select_tones computes for the Context of the latest call
ToneWeights == select_tones(context)[1]
ToneDisallow == select_tones(context)[2]

\* each weight is rounded to 3 decimals, so the sum may be off by half a
\* thousandth per tone
SumSlack == (Cardinality(ToneSet) + 1) \div 2

WeightsSumToOne ==
    /\ SumOver(ToneWeights, ToneSet) >= 1000 - SumSlack
    /\ SumOver(ToneWeights, ToneSet) <= 1000 + SumSlack

\* C13: the weights of select_tones sum to 1.0 within rounding, every
\* weight is at least 0.01 (10 thousandths), and a disallowed tone keeps
\* its weight in the map.
C13_ToneWeightsNormalized ==
    calls > 0 =>
        /\ WeightsSumToOne
        /\ \A t \in ToneSet : ToneWeights[t] >= 10
        /\ \A t \in ToneSet : InSeq(t, ToneDisallow) => ToneWeights[t] > 0

\* select_tones on the same Context without the red cards
RedFreeBaseline == select_tones([context EXCEPT !.cards_red = 0])

\* C14: against the Context that differs only in having no red card, a
\* Context with a red card has "aggressive" on the disallow list and a
\* strictly smaller normalized "aggressive" weight.
C14_RedCardSuppressesAggressive ==
    (calls > 0 /\ context.cards_red > 0)
    => /\ InSeq("aggressive", ToneDisallow)
       /\ ToneWeights["aggressive"] < RedFreeBaseline[1]["aggressive"]

\* a red card in play, where nothing else disallows the aggressive tone
C14_Witness ==
    /\ returned
    /\ context.cards_red > 0
    /\ context.stage = MID /\ context.special_situations = {}
    /\ ~InSeq("aggressive", RedFreeBaseline[2])
    /\ InSeq("aggressive", ToneDisallow)
    /\ InSeq("Disallow: aggressive", out.rec.notes)

\* the latest call was made at Early, as favourite, 1-0 up
EarlyLead ==
    /\ ctx_in.stage = EARLY /\ ctx_in.fav_status = FAVOURITE
    /\ ctx_in.team_goals = Some(1) /\ ctx_in.opponent_goals = Some(0)

\* no reaction rule that matches the Context's reactions carries a shout
NoReactionShout ==
    \A i \in DOMAIN files.reaction_rules :
        files.reaction_rules[i].reaction \in context.player_reactions
        => files.reaction_rules[i].adjustment.shout = NULL

\* the shout of the base rule the latest call picked
PickedShout == files.base_rules[Picked].recommendation.shout

\* C15 as stated: early, favourite, 1-0 up gives score state Winning and
\* the shout Focus.
C15_EarlyLeadShoutFocus ==
    (returned /\ EarlyLead) => (context.score_state = WINNING /\ out.rec.shout = "Focus")

\* C15, amended: the score state is Winning; the shout is Focus when the
\* picked base rule says Focus and no matching reaction rule carries a
\* shout; and when the picked rule has no shout (and no position/form
\* bucket, reaction rule, live stat or ML refinement supplies one) it stays
\* none for a favourite, the protect-the-lead branch of the in-play
\* selection being for Late and Very Late only.
C15_EarlyLeadShoutFromRule ==
    (returned /\ EarlyLead)
    => /\ context.score_state = WINNING
       /\ (PickedShout = "Focus" /\ NoReactionShout) => out.rec.shout = "Focus"
       /\ ( /\ PickedShout = SHOUT_NONE /\ NoReactionShout
             /\ context.fav_status = FAVOURITE
             /\ context_stats_total(context) \in -1..1
             /\ ~has_stats(context) /\ ~InferenceRuns(files.ml, context) )
          => out.rec.shout = SHOUT_NONE

\* the caller said Losing, the goals say 1-0, the Early/Winning rule was
\* picked and its Focus came back
C15_Witness ==
    /\ returned /\ EarlyLead
    /\ ctx_in.score_state = LOSING
    /\ files.base_rules[Picked].when.scoreState = WINNING
    /\ PickedShout = "Focus"
    /\ out.rec.shout = "Focus"

\* the latest call was made at half-time by an away favourite two or more
\* goals behind
HeavyHalfTimeDeficit ==
    /\ context.stage = HALF_TIME /\ context.score_state = LOSING
    /\ context.fav_status = FAVOURITE /\ context.venue = AWAY
    /\ context.ht_score_delta # NoneNum /\ context.ht_score_delta[1] <= -2

\* the gesture half of C16: the strong admonishment, not the mild one
HeavyDeficitGesture ==
    (returned /\ HeavyHalfTimeDeficit /\ ~InferenceRuns(files.ml, context))
    => out.rec.gesture = THRASH_ARMS

\* C16: an away favourite losing at half-time by two or more gets the
\* gesture Thrash Arms, whatever gesture the base rule, special overrides
\* and reaction rules set, and the shout none.
C16_HeavyDeficitThrashArmsNoShout ==
    (returned /\ HeavyHalfTimeDeficit)
    => (out.rec.gesture = THRASH_ARMS /\ out.rec.shout = SHOUT_NONE)

\* the advantages the 'require both' rule asks for, on the Context the
\* latest call was given
PositionAdvantage ==
    /\ ctx_in.team_position # NoneNum /\ ctx_in.opponent_position # NoneNum
    /\ ctx_in.opponent_position[1] - ctx_in.team_position[1]
          >= files.fav_cfg.pos_gap_threshold

FormAdvantage ==
    _score_form(ctx_in.team_form) - _score_form(ctx_in.opponent_form)
        >= files.fav_cfg.form_diff_threshold

\* the latest call ran detect_fav_status away from home under 'require both'
DetectedAwayRequireBoth ==
    /\ calls > 0 /\ ctx_in.auto_fav_status
    /\ files.fav_cfg.require_both_away /\ ctx_in.venue = AWAY

\* the same, restricted to Contexts that supply both league positions
AwayFavouriteNeedsBothWithTable ==
    ( /\ DetectedAwayRequireBoth
      /\ ctx_in.team_position # NoneNum /\ ctx_in.opponent_position # NoneNum
      /\ detect_fav_status(ctx_in, files.fav_cfg)[1] = FAVOURITE )
    => (PositionAdvantage /\ FormAdvantage)

\* C17: with 'require both' on and the venue away, detect_fav_status
\* returns Favourite only with both a position and a form advantage,
\* whether or not the league positions are supplied.
C17_AwayFavouriteNeedsBoth ==
    (DetectedAwayRequireBoth /\ detect_fav_status(ctx_in, files.fav_cfg)[1] = FAVOURITE)
    => (PositionAdvantage /\ FormAdvantage)

\* the edge of the latest Context played at home, and played away
HomeEdge == matchup_edge([context EXCEPT !.venue = HOME], files.adv_cfg)
AwayEdge == matchup_edge([context EXCEPT !.venue = AWAY], files.adv_cfg)

\* C18 as stated: of two Contexts that differ only in venue, the home one
\* has the strictly higher edge.
C18_HomeEdgeStrictlyHigher ==
    calls > 0 => HomeEdge > AwayEdge

\* C18, amended: the home edge is never lower, and it is strictly higher
\* except when the clamp to +-cap levels the two (the away score already at
\* +cap, or the home score still at -cap).
C18_HomeEdgeHigherUnlessCapped ==
    calls > 0 =>
        /\ HomeEdge >= AwayEdge
        /\ HomeEdge > AwayEdge
              <=> ~(AwayEdge = files.adv_cfg.cap \/ HomeEdge = -files.adv_cfg.cap)

\* positions and form supplied, no clamp in play: the venue weights make
\* the whole difference
C18_Witness ==
    /\ returned
    /\ HasPositions(context) /\ context.team_form # <<>>
    /\ HomeEdge - AwayEdge = files.adv_cfg.w_home - files.adv_cfg.w_away
    /\ HomeEdge > AwayEdge

NoDuplicates(seq) == \A i, j \in DOMAIN seq : i # j => seq[i] # seq[j]

\* C19: the notes of the returned Recommendation hold no string twice,
\* counting the notes appended after the reaction stage's dedupe.
C19_NotesHaveNoDuplicates ==
    returned => NoDuplicates(out.rec.notes)

\* the latest call was start() while a session was active
StartWhileActive == session_call.op = "start" /\ session_call.before # <<>>

\* the latest call was start() with a blank name
StartWithBlankName == session_call.op = "start" /\ strip(session_call.name) = <<>>

\* C20: start() while a session is active raises and leaves the active
\* session (id, name, context, events) as it was; start() with a blank name
\* raises and creates no session; at most one session is active at any
\* time.
C20_SingleActiveSession ==
    /\ StartWhileActive
          => (session_call.raised = "RuntimeError" /\ active_file = session_call.before)
    /\ StartWithBlankName
          => (session_call.raised # NULL /\ active_file = session_call.before)
    /\ Len(active_file) <= 1
    /\ \A i \in DOMAIN archive_file : archive_file[i].status # "active"

\* a session with an event logged is active, and start() was called again
\* under another name: it raised and the session is still there
C20_Witness ==
    /\ StartWhileActive
    /\ session_call.raised = "RuntimeError"
    /\ active_file # <<>>
    /\ active_file[1].events # <<>>
    /\ strip(session_call.name) \notin {<<>>, active_file[1].name}

\* the call just made, and how it ended
CallMade(op) == session_call'.op = op
CallReturned(op) == session_call'.op = op /\ session_call'.raised = NULL

\* the archive grew by exactly the record of the session that was active
ArchivedActiveSession ==
    /\ active_file # <<>>
    /\ Len(archive_file') = Len(archive_file) + 1
    /\ SubSeq(archive_file', 1, Len(archive_file)) = archive_file
    /\ archive_file'[Len(archive_file')].id = active_file[1].id
    /\ archive_file'[Len(archive_file')].name = active_file[1].name
    /\ archive_file'[Len(archive_file')].events = active_file[1].events
    /\ archive_file'[Len(archive_file')].status = "completed"

\* the active session gained one event at the end of its list
LoggedOneEvent ==
    /\ active_file # <<>> /\ active_file' # <<>>
    /\ active_file'[1].id = active_file[1].id
    /\ Len(active_file'[1].events) = Len(active_file[1].events) + 1
    /\ SubSeq(active_file'[1].events, 1, Len(active_file[1].events)) = active_file[1].events

LifecycleStep ==
    /\ CallReturned("complete") => (ArchivedActiveSession /\ active_file' = <<>>)
    /\ ~CallReturned("complete") => archive_file' = archive_file
    /\ CallReturned("append_event") => LoggedOneEvent
    /\ CallMade("cancel") => active_file' = <<>>
    /\ (active_file = <<>> /\ (CallMade("append_event") \/ CallMade("complete")))
          => /\ session_call'.raised = "RuntimeError"
             /\ active_file' = <<>>

\* C29: through any sequence of start / append_event / complete / cancel a
\* session is archived exactly once when it is completed and never
\* otherwise, with the events appended while it was active in append order;
\* once completed or cancelled it is no longer active, and append_event and
\* complete then raise and change nothing.
C29_SessionLifecycle == [][LifecycleStep]_vars

\* a session was archived with its two events in append order, nothing is
\* active, and the call that followed raised and changed nothing
C29_Witness ==
    /\ archive_file # <<>>
    /\ Len(archive_file[1].events) = 2
    /\ archive_file[1].events[1].ts < archive_file[1].events[2].ts
    /\ archive_file[1].status = "completed"
    /\ active_file = <<>>
    /\ session_call.op \in {"append_event", "complete"}
    /\ session_call.before = <<>>
    /\ session_call.raised = "RuntimeError"


--------------------------------------------------------------------------
\* The in-play shout selection of the latest call

\* the Recommendation handed to choose_inplay_shout by the latest call
\* (lines 1249-1262), on the Context as the call normalized it
InplayInput ==
    add_auto_status_note(
        apply_context_stats_adjustments(context,
            force_talk_stage_shout(context,
                apply_special_overrides(context,
                    pick_base_rule(context, files.base_rules, files.adv_cfg),
                    files.special_overrides))),
        auto_detect(derive_score_state(ctx_in), files)[2])

\* what choose_inplay_shout made of it
InplayOutput == choose_inplay_shout(context, InplayInput, files.adv_cfg)

\* the selection ran at an in-play stage on a scored Context
InplaySelection ==
    /\ returned /\ context.stage \notin TALK_STAGES
    /\ context.score_state \in ScoreState

LateStages == {LATE, VERY_LATE}

\* the table of the specification; NoShout where it names no shout
TableShout(c) ==
    IF c.score_state = WINNING
    THEN IF c.fav_status = UNDERDOG THEN "Praise"
         ELSE IF c.stage \in LateStages THEN "Focus" ELSE SHOUT_NONE
    ELSE IF c.score_state = DRAWING
    THEN IF c.fav_status = FAVOURITE THEN "Demand More" ELSE "Encourage"
    ELSE IF c.fav_status = FAVOURITE
         THEN IF c.stage \in LateStages THEN "Demand More" ELSE "Fire Up"
         ELSE "Encourage"

\* a strong favourite level in the closing minutes
StrongFavouriteDrawingVeryLate ==
    /\ context.stage = VERY_LATE /\ context.score_state = DRAWING
    /\ context.fav_status = FAVOURITE
    /\ detect_matchup_tier(context, files.adv_cfg)[1] = STRONG_FAVOURITE

\* everything the selection wrote is still in the returned notes
SelectionNotesKept ==
    \A i \in DOMAIN InplayOutput.notes : InSeq(InplayOutput.notes[i], out.rec.notes)

--------------------------------------------------------------------------
\* Outstretched Arms and the praise contexts

\* the latest call returned at a talk stage
TalkStageReturn == returned /\ context.stage \in TALK_STAGES

\* C22: at a talk stage the returned gesture is Outstretched Arms only in a
\* praise context, whatever base rule, special overrides and reaction rules
\* set.
C22_OpenArmsOnlyInPraiseContext ==
    (TalkStageReturn /\ out.rec.gesture = OUTSTRETCHED_ARMS) => _is_praise_context(context)

\* the same with the ML bridge idle
OpenArmsOnlyInPraiseContextRulesOnly ==
    (TalkStageReturn /\ ~InferenceRuns(files.ml, context)
        /\ out.rec.gesture = OUTSTRETCHED_ARMS) => _is_praise_context(context)


\* the ML bridge ran in the latest call, outside a praise context
InferenceOutsidePraise ==
    returned /\ InferenceRuns(files.ml, context) /\ ~_is_praise_context(context)

\* the gestures listed as ML suggestions in the returned alternatives
MLSuggestedGestures ==
    {out.rec.alternatives[i].gesture :
        i \in {k \in DOMAIN out.rec.alternatives :
                  out.rec.alternatives[k].type = "ml-suggested"}}

\* C23: outside a praise context the gesture the ML step applies, or lists
\* as an ml-suggested alternative, is never Outstretched Arms, whatever
\* probability map the gesture classifier returns.
C23_MLNeverOpenArmsOutsidePraise ==
    InferenceOutsidePraise
    => /\ out.rec.gesture # pre_ml.gesture => out.rec.gesture # OUTSTRETCHED_ARMS
       /\ OUTSTRETCHED_ARMS \notin MLSuggestedGestures

\* the same for a classifier that returns some class other than
\* Outstretched Arms
MLSkipsOpenArmsWhenAnotherClassExists ==
    ( /\ InferenceOutsidePraise
      /\ \E i \in DOMAIN model_probs(files.ml.gesture) :
            model_probs(files.ml.gesture)[i][1] # OUTSTRETCHED_ARMS )
    => /\ out.rec.gesture # pre_ml.gesture => out.rec.gesture # OUTSTRETCHED_ARMS
       /\ OUTSTRETCHED_ARMS \notin MLSuggestedGestures


--------------------------------------------------------------------------
\* Safer and bolder alternatives, confidence and risk

\* the tones the returned alternatives of one type offer
OfferedTones(type) ==
    UNION { {out.rec.alternatives[i].tones[j].tone :
                j \in DOMAIN out.rec.alternatives[i].tones} :
            i \in {k \in DOMAIN out.rec.alternatives :
                      out.rec.alternatives[k].type = type} }

\* no offered tone is on the disallow list, by name
OfferedTonesNotListed ==
    \A t \in OfferedTones("safer") \cup OfferedTones("bolder") : ~InSeq(t, ToneDisallow)

\* C24: every tone of a safer or bolder alternative is absent from the
\* disallow list of the same Context; in particular, when the aggressive
\* tone is disallowed the bolder alternatives offer neither "aggressive"
\* nor "angry".
C24_AlternativesAvoidDisallowed ==
    returned
    => /\ OfferedTonesNotListed
       /\ InSeq("aggressive", ToneDisallow)
          => OfferedTones("bolder") \cap {"aggressive", "angry"} = {}


\* the top-weighted tone of the latest call, and its weight
TopTone == top_tone(ToneWeights)

\* gesture-tone synergy of the top tone with the gesture the rules chose
\* (the ML bridge runs after the tone metadata is written)
TopSynergy == score_synergy(TopTone, pre_ml.gesture, context)

\* 0.6 x top tone weight + 0.4 x synergy, in thousandths, clamped to [0, 1]
ClaimedConfidence == Max(0, Min(1000, RoundDiv(6 * ToneWeights[TopTone] + 4 * TopSynergy, 10)))

BoldThreshold == 450

C25_WitnessNeutral ==
    /\ returned /\ TopTone = "assertive"
    /\ out.rec.confidence < BoldThreshold
    /\ out.rec.risk = "neutral"


--------------------------------------------------------------------------
\* The score-delta step of the tone engine

\* the raw weights after the dynamic signals, before normalization
RawWeights(c) == _apply_dynamic_signals(c, _base_weights(c))

\* the latest call was made for an away favourite trailing at half-time
AwayFavouriteTrailingAtHalfTime ==
    /\ calls > 0
    /\ context.stage = HALF_TIME /\ context.venue = AWAY /\ context.fav_status = FAVOURITE
    /\ context.ht_score_delta # NoneNum /\ context.ht_score_delta[1] < 0

\* the same Context with the half-time delta absent, and with a delta of zero;
\* the other signals do not read the delta, so the difference is the step's
LevelBaselines ==
    {[context EXCEPT !.ht_score_delta = NoneNum], [context EXCEPT !.ht_score_delta = Some(0)]}

\* C26: for an away favourite trailing at half-time the score-delta step
\* lowers the motivational raw weight: it is not higher than for the same
\* Context with a zero or absent half-time delta.
C26_TrailingAwayFavouriteLessMotivational ==
    AwayFavouriteTrailingAtHalfTime
    => \A b \in LevelBaselines :
          RawWeights(context)["motivational"] <= RawWeights(b)["motivational"]

\* what the step does: it raises motivational by less than for any other
\* trailing side
TrailingAwayFavouriteRaisedLess ==
    AwayFavouriteTrailingAtHalfTime
    => \A b \in LevelBaselines :
          /\ RawWeights(context)["motivational"] > RawWeights(b)["motivational"]
          /\ RawWeights(context)["motivational"]
               < RawWeights([context EXCEPT !.venue = HOME])["motivational"]
                 - (_base_weights([context EXCEPT !.venue = HOME])["motivational"]
                    - _base_weights(context)["motivational"])


--------------------------------------------------------------------------
\* Matchup tier

Tiers == {STRONG_FAVOURITE, SLIGHT_FAVOURITE, EVEN, SLIGHT_UNDERDOG, STRONG_UNDERDOG}

\* what detect_matchup_tier returns for the Context of the latest call
TierOfCall == detect_matchup_tier(context, files.adv_cfg)[1]
EdgeOfCall == detect_matchup_tier(context, files.adv_cfg)[2]

\* the bands of the default cutoffs, in 1/200ths: 2.5 is 500, 0.8 is 160
DefaultBand(score) ==
    IF score >= 500 THEN STRONG_FAVOURITE
    ELSE IF score >= 160 THEN SLIGHT_FAVOURITE
    ELSE IF score > -160 THEN EVEN
    ELSE IF score > -500 THEN SLIGHT_UNDERDOG
    ELSE STRONG_UNDERDOG

\* the score is in none of the five bands of the configured cutoffs
NoBandMatches(score, m) ==
    /\ score < m.thr_strong_fav /\ score < m.thr_slight_fav
    /\ ~(m.thr_even_lo < score /\ score < m.thr_even_hi)
    /\ score > m.thr_strong_dog /\ score > m.thr_slight_dog

\* C27: the edge lies within [-cap, +cap] and maps to exactly one tier; with
\* the default cutoffs the tier is the band of the score (monotone in the
\* score), and a score that no band matches is Even.
C27_TierBands ==
    calls > 0
    => /\ EdgeOfCall >= -files.adv_cfg.cap /\ EdgeOfCall <= files.adv_cfg.cap
       /\ TierOfCall \in Tiers
       /\ files.adv_cfg = DEFAULT_ADV_CFG => TierOfCall = DefaultBand(EdgeOfCall)
       /\ NoBandMatches(EdgeOfCall, files.adv_cfg) => TierOfCall = EVEN

\* a home side without table or form under the narrow even band: the edge
\* of 0.6 is in no band and the tier is Even
C27_Witness ==
    /\ calls > 0
    /\ NoBandMatches(EdgeOfCall, files.adv_cfg)
    /\ EdgeOfCall > files.adv_cfg.thr_even_hi
    /\ TierOfCall = EVEN

\* the clamp is met under the default cutoffs
C27_CappedStrongFavourite ==
    /\ calls > 0 /\ files.adv_cfg = DEFAULT_ADV_CFG
    /\ TierOfCall = STRONG_FAVOURITE /\ EdgeOfCall = files.adv_cfg.cap


--------------------------------------------------------------------------
\* recommend while the files under data/rules/normalized are replaced.
\* Every loader reads its file when it is called (_load_config_json,
\* detect_fav_status, detect_matchup_tier, _get_catalogs, _get_statements),
\* so one call reads the disk at several moments.  The call is cut where
\* recommend itself loads files: lines 1215-1232 (engine_config.json),
\* lines 1235-1265 (base_rules.json, special_overrides.json, engine_config)
\* and lines 1266-1363 (reaction_rules.json, engine_config, the catalogs and
\* the model store).  A replacement swaps the whole set of files at once.

\* two versions of the files: the defaults, and a release that rewrites the
\* base rules, the reaction rules and the tier cutoffs
ReleasedFiles ==
    [DEFAULT_FILES EXCEPT !.base_rules = CapNoteRules \o GenericRules,
                          !.reaction_rules = <<CalmDownRule, ComplacentRule>>,
                          !.adv_cfg = NarrowEvenBand]

FileVersions == <<DEFAULT_FILES, ReleasedFiles>>

VersionOf(f) == CHOOSE v \in DOMAIN FileVersions : FileVersions[v] = f

ReloadContexts ==
    {[c EXCEPT !.player_reactions = pr] :
        c \in {b \in BasicContexts : /\ b.stage \in {PRE_MATCH, EARLY, HALF_TIME}
                                      /\ b.score_state \in {DRAWING, LOSING}},
        pr \in {{}, {NERVOUS}}}

\* lines 1235-1265 on the files f: base rule, special overrides, context
\* stats, in-play shout, time/score and live-stat heuristics
eval_rules(c, f, fav_explanation) ==
    apply_live_stats_heuristics(c,
        apply_time_score_heuristics(c,
            choose_inplay_shout(c,
                add_auto_status_note(
                    apply_context_stats_adjustments(c,
                        force_talk_stage_shout(c,
                            apply_special_overrides(c,
                                pick_base_rule(c, f.base_rules, f.adv_cfg),
                                f.special_overrides))),
                    fav_explanation),
                f.adv_cfg)))

\* lines 1266-1363 on the files f, rec being with_stats_live
eval_reactions(c, f, rec, pk) ==
    recommend_harmonized(c, f, pk,
        harmonize_talk_with_gesture(c,
            apply_tier_informed_talk_adjustments(c,
                adjust_gesture_for_context(c,
                    apply_reaction_adjustments(c, rec, f.reaction_rules)),
                f.adv_cfg),
            f.stmt_count))

EvalUnchanged == UNCHANGED <<active_file, archive_file, session_call, managers>>

\* lines 1215-1232: the call starts, normalizes the Context and reads
\* engine_config.json
EvalBegin ==
    /\ evaluation.pc \in {"idle", "done"}
    /\ calls < MaxCalls
    /\ context' = normalized_context(context, files)
    /\ ctx_in' = context
    /\ prev_ctx_in' = ctx_in
    /\ evaluation' = [pc |-> "rules",
                      expl |-> auto_detect(derive_score_state(context), files)[2],
                      rec |-> NO_REC, reads |-> <<VersionOf(files)>>]
    /\ UNCHANGED <<files, out, pre_ml, prev_out, feature_log, calls>>
    /\ EvalUnchanged

\* lines 1235-1265: the rule files are loaded; without a base rule the call
\* returns None
EvalRules ==
    /\ evaluation.pc = "rules"
    /\ IF ~HasBase(context, files.base_rules, files.adv_cfg)
       THEN /\ evaluation' = [evaluation EXCEPT !.pc = "done",
                                                !.reads = Append(@, VersionOf(files))]
            /\ out' = [kind |-> "none", rec |-> NO_REC]
            /\ prev_out' = out
            /\ pre_ml' = NO_REC
            /\ calls' = calls + 1
       ELSE /\ evaluation' = [evaluation EXCEPT
                                 !.pc = "reactions",
                                 !.rec = eval_rules(context, files, evaluation.expl),
                                 !.reads = Append(@, VersionOf(files))]
            /\ UNCHANGED <<out, prev_out, pre_ml, calls>>
    /\ UNCHANGED <<context, ctx_in, prev_ctx_in, files, feature_log>>
    /\ EvalUnchanged

\* the call returns r
EvalReturned(r) ==
    /\ out' = [kind |-> r.kind, rec |-> r.rec]
    /\ prev_out' = out
    /\ pre_ml' = r.pre_ml
    /\ feature_log' = feature_log \o r.rows
    /\ calls' = calls + 1
    /\ evaluation' = [evaluation EXCEPT !.pc = "done", !.rec = NO_REC,
                                        !.reads = Append(@, VersionOf(files))]

\* lines 1266-1363: the reaction rules are loaded and the call runs to its
\* end
EvalReactions ==
    /\ evaluation.pc = "reactions"
    /\ \E pk \in Draws(context, files) :
          EvalReturned(eval_reactions(context, files, evaluation.rec, pk))
    /\ UNCHANGED <<context, ctx_in, prev_ctx_in, files>>
    /\ EvalUnchanged

\* the files on disk are replaced by another version, all at once
ReplaceFiles ==
    /\ \E v \in DOMAIN FileVersions :
          FileVersions[v] # files /\ files' = FileVersions[v]
    /\ UNCHANGED <<context, ctx_in, prev_ctx_in, out, pre_ml, prev_out, feature_log,
                   calls, evaluation>>
    /\ EvalUnchanged

ReloadInit ==
    /\ NoSessions /\ Sequential
    /\ context \in ReloadContexts
    /\ files \in {FileVersions[v] : v \in DOMAIN FileVersions}
    /\ ctx_in = context /\ prev_ctx_in = context
    /\ out = IDLE /\ prev_out = IDLE /\ pre_ml = NO_REC
    /\ feature_log = <<>> /\ calls = 0

ReloadNext == EvalBegin \/ EvalRules \/ EvalReactions \/ ReplaceFiles

ReloadSpec == ReloadInit /\ [][ReloadNext]_vars

\* a call has run to its end
EvaluationDone == evaluation.pc = "done"

\* the versions the finished call read
VersionsRead == {evaluation.reads[i] : i \in DOMAIN evaluation.reads}

\* what an undisturbed call on the files f can return for the Context of the
\* latest call
Undisturbed(f) ==
    {[kind |-> recommend(ctx_in, f, pk).kind, rec |-> recommend(ctx_in, f, pk).rec] :
        pk \in Draws(normalized_context(ctx_in, f), f)}

\* a call that read one version throughout returned what recommend returns
\* on that version
OneVersionAgreesWithRecommend ==
    (EvaluationDone /\ Cardinality(VersionsRead) = 1)
    => \A v \in VersionsRead : out \in Undisturbed(FileVersions[v])

\* C28: an evaluation in flight while the files are replaced still sees one
\* version throughout: base rules, special overrides, reaction rules,
\* catalogs and engine_config all come from the same version.
C28_EvaluationSeesOneVersion ==
    EvaluationDone => Cardinality(VersionsRead) = 1

\* the call returned a Recommendation that neither version alone produces
MixedRecommendation ==
    /\ EvaluationDone /\ out.kind = "rec"
    /\ \A v \in DOMAIN FileVersions : out \notin Undisturbed(FileVersions[v])


--------------------------------------------------------------------------
\* Several SessionManager instances on the same data/sessions directory.
\* append_event is a read-modify-write of active.json without a lock: it
\* reads the file (lines 99-101), then stamps and appends the event to its
\* own copy and writes the file back (lines 102-104).  managers[m] holds
\*   pc       "idle", or "write" between the read and the write
\*   session  the copy m read
\*   event    the event m is appending
\*   logged   the events of m's calls that returned without error

\* each UI session logs its own kind of event
ManagerEvents == [m \in Managers |-> [type |-> IF m = "m1" THEN "recommendation" ELSE "shout"]]

ManagersUnchanged ==
    UNCHANGED <<context, ctx_in, prev_ctx_in, files, out, pre_ml, prev_out, feature_log,
                calls, evaluation, archive_file>>

\* lines 99-101: the existence check and the read
AppendRead(m) ==
    /\ managers[m].pc = "idle"
    /\ Len(managers[m].logged) < MaxEvents
    /\ IF active_file = <<>>
       THEN Called("append_event", <<>>, "RuntimeError")
            /\ UNCHANGED <<active_file, archive_file>>
       ELSE /\ managers' = [managers EXCEPT ![m].pc = "write",
                                            ![m].session = active_file,
                                            ![m].event = <<ManagerEvents[m]>>]
            /\ UNCHANGED <<active_file, session_call>>
            /\ ManagersUnchanged

\* the copy m holds, with its event stamped and appended
WithEvent(m) ==
    [managers[m].session[1] EXCEPT
        !.events = Append(@, Stamped(managers[m].event[1], Len(@) + 1))]

\* lines 102-104: stamp, append to the copy, write the copy back, return
AppendWrite(m) ==
    /\ managers[m].pc = "write"
    /\ active_file' = <<WithEvent(m)>>
    /\ managers' = [managers EXCEPT
                       ![m].pc = "idle", ![m].session = <<>>, ![m].event = <<>>,
                       ![m].logged = Append(@, Stamped(managers[m].event[1],
                                                 Len(managers[m].session[1].events) + 1))]
    /\ session_call' = [op |-> "append_event", name |-> <<>>, raised |-> NULL,
                        before |-> active_file]
    /\ ManagersUnchanged

ManagersInit == SessionInit

ManagersNext ==
    \/ Start
    \/ \E m \in Managers : AppendRead(m)
    \/ \E m \in Managers : AppendWrite(m)

ManagersSpec == ManagersInit /\ [][ManagersNext]_vars

\* the events of the active session
ActiveEvents == {active_file[1].events[i] : i \in DOMAIN active_file[1].events}

\* the events m was told are logged
LoggedBy(m) == {managers[m].logged[i] : i \in DOMAIN managers[m].logged}

\* C30: when append_event calls of several SessionManager instances
\* interleave, every call that returned without error has its event in the
\* active session's event list afterwards.
C30_NoAppendedEventLost ==
    active_file # <<>> => \A m \in Managers : LoggedBy(m) \subseteq ActiveEvents

====
